---- MODULE Spec2Model ----
(***************************************************************************)
(* State-machine model of the HAR reverse-engineering backend:             *)
(*   - the command runner   (backend/main.py: execute_curl_command,        *)
(*     enhance_curl_command, parse_curl_response),                         *)
(*   - the archive parser   (backend/app/services/har_parser.py),          *)
(*   - the oracle service   (backend/app/services/llm_service.py),         *)
(*   - the command builder  (backend/app/services/curl_generator.py),      *)
(*   - the pipeline         (backend/main.py: reverse_engineer_api).       *)
(* Text is modelled character by character: a Python str is a sequence of  *)
(* one-character strings, so that substring, prefix, strip, split and      *)
(* lower-casing behave as they do in the code.                             *)
(***************************************************************************)
EXTENDS Integers, Sequences, FiniteSets, TLC

VARIABLES
    curl_command,      \* request.curl_command of the call being served
    run_pc,            \* position of execute_curl_command
    enhanced_command,  \* the text handed to subprocess.run
    spawned,           \* the commands spawned so far by this call
    returned,          \* the ExecuteCurlResponse returned to the caller (0 or 1)
    raised,            \* exceptions that left execute_curl_command (0 or 1)
    cause,             \* why the call ended (bookkeeping for the properties)
    injected,          \* the status, headers and body put into a synthetic curl output
    decoded,           \* what parse_curl_response made of that output (0 or 1)
    har_content,       \* the archive handed to parse_har_file
    max_requests,      \* settings.MAX_REQUESTS_TO_ANALYZE of this deployment
    har_pc,            \* position of parse_har_file
    entry_i,           \* the number of entries the loop has taken
    parsed_requests,   \* the list the loop appends to
    har_result,        \* the list parse_har_file returns
    har_error,         \* the exception parse_har_file raises (0 or 1)
    exchange,          \* a request dictionary handed to _should_include_request
    included,          \* what _should_include_request returned for it (0 or 1)
    llm_requests,      \* the requests handed to find_best_request
    compressed_requests, \* the candidates sent to the oracle
    llm_pc,            \* position of find_best_request
    llm_answer,        \* the answer of the oracle (0 or 1)
    llm_result,        \* the request find_best_request returns (0 or 1)
    llm_error,         \* the exception find_best_request raises (0 or 1)
    build_request,     \* the request handed to the builder
    build_pc,          \* position of generate_curl
    build_parts,       \* curl_parts when generate_curl returns
    build_result,      \* the command generate_curl returns (0 or 1)
    build_error,       \* the exception generate_curl raises (0 or 1)
    annotated,         \* what generate_curl_with_comments returns (0 or 1)
    pipe_uploads,      \* the archive uploaded with each invocation
    pipe_pc,           \* position of each invocation of reverse_engineer_api
    pipe_frames,       \* the local variables of each invocation
    oracle_replies,    \* the answer the oracle gave each invocation (0 or 1)
    pipe_response,     \* the response of each invocation (0 or 1)
    app_state          \* the service objects shared by the invocations

runVars == <<curl_command, run_pc, enhanced_command, spawned, returned, raised, cause>>

decVars == <<injected, decoded>>

harVars == <<har_content, max_requests, har_pc, entry_i, parsed_requests, har_result, har_error>>

filtVars == <<exchange, included>>

llmVars == <<llm_requests, compressed_requests, llm_pc, llm_answer, llm_result, llm_error>>

buildVars == <<build_request, build_pc, build_parts, build_result, build_error, annotated>>

pipeVars == <<pipe_uploads, pipe_pc, pipe_frames, oracle_replies, pipe_response, app_state>>

notRunVars == <<decVars, harVars, filtVars, llmVars, buildVars, pipeVars>>

notDecVars == <<runVars, harVars, filtVars, llmVars, buildVars, pipeVars>>

notHarVars == <<runVars, decVars, filtVars, llmVars, buildVars, pipeVars>>

notFiltVars == <<runVars, decVars, harVars, llmVars, buildVars, pipeVars>>

notLlmVars == <<runVars, decVars, harVars, filtVars, buildVars, pipeVars>>

notBuildVars == <<runVars, decVars, harVars, filtVars, llmVars, pipeVars>>

notPipeVars == <<runVars, decVars, harVars, filtVars, llmVars, buildVars>>

vars == <<runVars, decVars, harVars, filtVars, llmVars, buildVars, pipeVars>>

(***************************************************************************)
(* Python str operations                                                   *)
(***************************************************************************)

\* str.strip() with no argument strips these (the ASCII ones that occur here)
WS == {" ", "\t", "\n", "\r", "\f"}

\* \d of the re module, ASCII
DIGITS == {"0", "1", "2", "3", "4", "5", "6", "7", "8", "9"}

SetMin(S) == CHOOSE x \in S : \A y \in S : x <= y

SetMax(S) == CHOOSE x \in S : \A y \in S : y <= x

\* s[i-1:].startswith(p), 1-based
IsPrefixAt(s, p, i) ==
    /\ i >= 1
    /\ i + Len(p) - 1 <= Len(s)
    /\ \A k \in 1..Len(p) : s[i + k - 1] = p[k]

\* s.startswith(p)
StartsWith(s, p) == IsPrefixAt(s, p, 1)

\* s.endswith(p)
EndsWith(s, p) == Len(p) <= Len(s) /\ IsPrefixAt(s, p, Len(s) - Len(p) + 1)

\* p in s
Contains(s, p) == \E i \in 1..(Len(s) - Len(p) + 1) : IsPrefixAt(s, p, i)

\* s.find(p) + 1: the 1-based place of the first occurrence, 0 when there is none
Find(s, p) ==
    IF Contains(s, p)
    THEN SetMin({i \in 1..(Len(s) - Len(p) + 1) : IsPrefixAt(s, p, i)})
    ELSE 0

\* s[i-1:], 1-based
From(s, i) == SubSeq(s, i, Len(s))

\* s.strip()
Strip(s) ==
    LET keep == {i \in 1..Len(s) : s[i] \notin WS}
    IN  IF keep = {} THEN <<>> ELSE SubSeq(s, SetMin(keep), SetMax(keep))

\* s.replace(old, new, 1)
ReplaceFirst(s, old, new) ==
    LET i == Find(s, old)
    IN  IF i = 0 THEN s
        ELSE SubSeq(s, 1, i - 1) \o new \o From(s, i + Len(old))

\* s.split(sep, 1): one or two parts
SplitOnce(s, sep) ==
    LET i == Find(s, sep)
    IN  IF i = 0 THEN <<s>>
        ELSE <<SubSeq(s, 1, i - 1), From(s, i + Len(sep))>>

\* s.split(sep): all the parts
RECURSIVE Split(_, _)
Split(s, sep) ==
    LET i == Find(s, sep)
    IN  IF i = 0 THEN <<s>>
        ELSE <<SubSeq(s, 1, i - 1)>> \o Split(From(s, i + Len(sep)), sep)

UPPER == <<"A","B","C","D","E","F","G","H","I","J","K","L","M","N","O","P","Q","R","S","T","U","V","W","X","Y","Z">>

LOWER == <<"a","b","c","d","e","f","g","h","i","j","k","l","m","n","o","p","q","r","s","t","u","v","w","x","y","z">>

LowerChar(c) ==
    IF \E k \in 1..26 : UPPER[k] = c
    THEN LOWER[CHOOSE k \in 1..26 : UPPER[k] = c]
    ELSE c

\* s.lower()
Lower(s) == [i \in 1..Len(s) |-> LowerChar(s[i])]

\* int(digits) for a run of ASCII digits
DigitValue(c) == CHOOSE n \in 0..9 : <<"0","1","2","3","4","5","6","7","8","9">>[n + 1] = c

RECURSIVE ParseInt(_)
ParseInt(ds) ==
    IF Len(ds) = 0 THEN 0
    ELSE 10 * ParseInt(SubSeq(ds, 1, Len(ds) - 1)) + DigitValue(ds[Len(ds)])

\* a dict: {} and d[k] = v (insertion replaces the value of an equal key)
EmptyDict == [k \in {} |-> <<>>]

DictSet(d, k, v) == [x \in (DOMAIN d) \cup {k} |-> IF x = k THEN v ELSE d[x]]

(***************************************************************************)
(* backend/main.py: enhance_curl_command                                   *)
(***************************************************************************)

S_curl == <<"c","u","r","l">>  \* "curl"
S_curl_sp == <<"c","u","r","l"," ">>  \* "curl "
S_curl_i_sp == <<"c","u","r","l"," ","-","i"," ">>  \* "curl -i "
S_i == <<"-","i">>  \* "-i"
S_include == <<"-","-","i","n","c","l","u","d","e">>  \* "--include"
S_w == <<"-","w">>  \* "-w"
S_write_out == <<"-","-","w","r","i","t","e","-","o","u","t">>  \* "--write-out"
S_max_time == <<"-","-","m","a","x","-","t","i","m","e">>  \* "--max-time"
S_m == <<"-","m">>  \* "-m"
S_connect_timeout == <<"-","-","c","o","n","n","e","c","t","-","t","i","m","e","o","u","t">>  \* "--connect-timeout"
S_L == <<"-","L">>  \* "-L"
S_location == <<"-","-","l","o","c","a","t","i","o","n">>  \* "--location"
S_k == <<"-","k">>  \* "-k"
S_insecure == <<"-","-","i","n","s","e","c","u","r","e">>  \* "--insecure"
ADD_w == <<" ","-","w"," ","\"","\\","n","-","-","-","C","U","R","L","_","S","T","A","T","U","S","_","C","O","D","E",":","%","{","h","t","t","p","_","c","o","d","e","}","-","-","-","\\","n","\"">>  \* " -w \"\\n---CURL_STATUS_CODE:%{http_code}---\\n\""
ADD_max_time == <<" ","-","-","m","a","x","-","t","i","m","e"," ","3","0">>  \* " --max-time 30"
ADD_connect_timeout == <<" ","-","-","c","o","n","n","e","c","t","-","t","i","m","e","o","u","t"," ","1","0">>  \* " --connect-timeout 10"
ADD_L == <<" ","-","L">>  \* " -L"
ADD_k == <<" ","-","k">>  \* " -k"

\* main.py:264-265
EnhanceInclude(e) ==
    IF ~Contains(e, S_i) /\ ~Contains(e, S_include)
    THEN ReplaceFirst(e, S_curl_sp, S_curl_i_sp)
    ELSE e

\* main.py:268-269
EnhanceWriteOut(e) ==
    IF ~Contains(e, S_w) /\ ~Contains(e, S_write_out) THEN e \o ADD_w ELSE e

\* main.py:272-273
EnhanceMaxTime(e) ==
    IF ~Contains(e, S_max_time) /\ ~Contains(e, S_m) THEN e \o ADD_max_time ELSE e

\* main.py:276-277
EnhanceConnectTimeout(e) ==
    IF ~Contains(e, S_connect_timeout) THEN e \o ADD_connect_timeout ELSE e

\* main.py:280-281
EnhanceLocation(e) ==
    IF ~Contains(e, S_L) /\ ~Contains(e, S_location) THEN e \o ADD_L ELSE e

\* main.py:284-285
EnhanceInsecure(e) ==
    IF ~Contains(e, S_k) /\ ~Contains(e, S_insecure) THEN e \o ADD_k ELSE e

enhance_curl_command(c) ==
    EnhanceInsecure(EnhanceLocation(EnhanceConnectTimeout(
        EnhanceMaxTime(EnhanceWriteOut(EnhanceInclude(Strip(c)))))))

(***************************************************************************)
(* backend/main.py: parse_curl_response                                    *)
(***************************************************************************)

MARK_HEAD == <<"-","-","-","C","U","R","L","_","S","T","A","T","U","S","_","C","O","D","E",":">>  \* "---CURL_STATUS_CODE:"
MARK_TAIL == <<"-","-","-">>  \* "---"
CRLFCRLF == <<"\r","\n","\r","\n">>  \* "\r\n\r\n"
LFLF == <<"\n","\n">>  \* "\n\n"
LF == <<"\n">>  \* "\n"
COLON == <<":">>  \* ":"

\* the number of characters of s from place j on that are all in the set cs
RunLength(s, j, cs) ==
    SetMin({n \in 0..(Len(s) - j + 1) : j + n > Len(s) \/ s[j + n] \notin cs})

\* r'---CURL_STATUS_CODE:(\d+)---' matches at place i
MarkerAt(s, i) ==
    /\ IsPrefixAt(s, MARK_HEAD, i)
    /\ LET j == i + Len(MARK_HEAD)
           n == RunLength(s, j, DIGITS)
       IN  n >= 1 /\ IsPrefixAt(s, MARK_TAIL, j + n)

HasMarker(s) == \E i \in 1..Len(s) : MarkerAt(s, i)

\* re.search: the leftmost match
FirstMarker(s) == SetMin({i \in 1..Len(s) : MarkerAt(s, i)})

\* group(1) of the match at place i
MarkerDigits(s, i) ==
    LET j == i + Len(MARK_HEAD)
    IN  SubSeq(s, j, j + RunLength(s, j, DIGITS) - 1)

\* the first place after the match of r'---CURL_STATUS_CODE:\d+---\s*' at place i
MarkerEnd(s, i) ==
    LET j == i + Len(MARK_HEAD)
        t == j + RunLength(s, j, DIGITS) + Len(MARK_TAIL)
    IN  t + RunLength(s, t, WS)

\* re.sub(r'---CURL_STATUS_CODE:\d+---\s*', '', s)
RECURSIVE RemoveMarkers(_)
RemoveMarkers(s) ==
    IF ~HasMarker(s) THEN s
    ELSE LET i == FirstMarker(s)
         IN  SubSeq(s, 1, i - 1) \o RemoveMarkers(From(s, MarkerEnd(s, i)))

\* main.py:317-320, the loop over header_lines
RECURSIVE ParseHeaderLines(_, _)
ParseHeaderLines(lines, headers) ==
    IF Len(lines) = 0 THEN headers
    ELSE LET line == Head(lines)
             kv == SplitOnce(line, COLON)
         IN  ParseHeaderLines(Tail(lines),
                 IF Contains(line, COLON)
                 THEN DictSet(headers, Lower(Strip(kv[1])), Strip(kv[2]))
                 ELSE headers)

\* a split without the LF-LF fallback
SplitHeadersBody_NoFallback(clean_output) == SplitOnce(clean_output, CRLFCRLF)

\* main.py:302-304
SplitHeadersBody(clean_output) ==
    IF Len(SplitOnce(clean_output, CRLFCRLF)) < 2
    THEN SplitOnce(clean_output, LFLF)
    ELSE SplitOnce(clean_output, CRLFCRLF)

parse_curl_response(curl_output) ==
    LET status_code ==
            IF HasMarker(curl_output)
            THEN ParseInt(MarkerDigits(curl_output, FirstMarker(curl_output)))
            ELSE 200
        clean_output == RemoveMarkers(curl_output)
        parts == SplitHeadersBody(clean_output)
        headers_section == IF Len(parts) >= 2 THEN parts[1] ELSE <<>>
        body == IF Len(parts) >= 2 THEN Strip(parts[2]) ELSE Strip(clean_output)
        headers ==
            IF Len(headers_section) > 0
            THEN ParseHeaderLines(Tail(Split(headers_section, LF)), EmptyDict)
            ELSE EmptyDict
    IN  [status_code |-> status_code, headers |-> headers, body |-> body]

(***************************************************************************)
(* backend/main.py: execute_curl_command                                   *)
(***************************************************************************)

\* models.py: ExecuteCurlResponse; error is Optional[str]: <<>> is None
ExecuteCurlResponse(success, status_code, headers, body, execution_time, error) ==
    [success |-> success, status_code |-> status_code, headers |-> headers,
     body |-> body, execution_time |-> execution_time, error |-> error]

MSG_prefix == <<"E","x","e","c","u","t","i","o","n"," ","f","a","i","l","e","d",":"," ">>  \* "Execution failed: "
MSG_invalid == <<"4","0","0",":"," ","I","n","v","a","l","i","d"," ","c","o","m","m","a","n","d",":"," ","m","u","s","t"," ","b","e"," ","a"," ","c","u","r","l"," ","c","o","m","m","a","n","d">>  \* "400: Invalid command: must be a curl command"
MSG_unknown == <<"U","n","k","n","o","w","n"," ","c","u","r","l"," ","e","r","r","o","r">>  \* "Unknown curl error"
MSG_timeout == <<"R","e","q","u","e","s","t"," ","t","i","m","e","d"," ","o","u","t"," ","a","f","t","e","r"," ","3","0"," ","s","e","c","o","n","d","s">>  \* "Request timed out after 30 seconds"

\* execution_time of the timeout result, in ms
TimeoutMs == 30000

\* the except Exception handler, main.py:245-254
ExecutionFailed(text) ==
    ExecuteCurlResponse(FALSE, 0, EmptyDict, <<>>, 0, <<MSG_prefix \o text>>)

\* a check that looks for the program token anywhere in the text
IsCurlCommand_AnyPlace(c) == Contains(Strip(c), S_curl)

\* main.py:187
IsCurlCommand(c) == StartsWith(Strip(c), S_curl)

\* what the environment may answer to a spawned command
OUT_ok == <<"H","T","T","P","/","1",".","1"," ","2","0","0"," ","O","K","\r","\n","C","o","n","t","e","n","t","-","T","y","p","e",":"," ","a","p","p","l","i","c","a","t","i","o","n","/","j","s","o","n","\r","\n","\r","\n","{","\"","a","\"",":"," ","1","}","\n","-","-","-","C","U","R","L","_","S","T","A","T","U","S","_","C","O","D","E",":","2","0","0","-","-","-","\n">>  \* "HTTP/1.1 200 OK\r\nContent-Type: application/json\r\n\r\n{\"a\": 1}\n---CURL_STATUS_CODE:200---\n"
OUT_lf == <<"H","T","T","P","/","1",".","1"," ","4","0","4"," ","N","o","t"," ","F","o","u","n","d","\n","X","-","I","d",":"," ","7","\n","\n","n","o","t"," ","f","o","u","n","d","\n","-","-","-","C","U","R","L","_","S","T","A","T","U","S","_","C","O","D","E",":","4","0","4","-","-","-","\n">>  \* "HTTP/1.1 404 Not Found\nX-Id: 7\n\nnot found\n---CURL_STATUS_CODE:404---\n"
OUT_bare == <<"p","l","a","i","n"," ","t","e","x","t">>  \* "plain text"
ERR_host == <<"c","u","r","l",":"," ","(","6",")"," ","C","o","u","l","d"," ","n","o","t"," ","r","e","s","o","l","v","e"," ","h","o","s","t",":"," ","h","\n">>  \* "curl: (6) Could not resolve host: h\n"
ERR_blank == <<"\n">>  \* "\n"
EXC_decode == <<"'","u","t","f","-","8","'"," ","c","o","d","e","c"," ","c","a","n","'","t"," ","d","e","c","o","d","e"," ","b","y","t","e"," ","0","x","f","f"," ","i","n"," ","p","o","s","i","t","i","o","n"," ","0",":"," ","i","n","v","a","l","i","d"," ","s","t","a","r","t"," ","b","y","t","e">>  \* "'utf-8' codec can't decode byte 0xff in position 0: invalid start byte"
EXC_null == <<"e","m","b","e","d","d","e","d"," ","n","u","l","l"," ","b","y","t","e">>  \* "embedded null byte"

Stdouts == {OUT_ok, OUT_lf, OUT_bare, <<>>}

Stderrs == {ERR_host, ERR_blank, <<>>}

ExceptionTexts == {EXC_decode, EXC_null}

ReturnCodes == {0, 6, 22}

\* int((time.time() - start_time) * 1000) of a run that ended within the timeout
ElapsedMs == {3, 1500}

\* a handler that re-raises the HTTPException, as reverse_engineer_api does
RunReject_Reraise ==
    /\ run_pc = "start"
    /\ ~IsCurlCommand(curl_command)
    /\ raised' = Append(raised, MSG_invalid)
    /\ run_pc' = "done"
    /\ cause' = "validation"
    /\ UNCHANGED <<curl_command, enhanced_command, spawned, returned, notRunVars>>

\* main.py:187-191: the HTTPException is raised inside the try and taken by
\* the except Exception handler
RunReject ==
    /\ run_pc = "start"
    /\ ~IsCurlCommand(curl_command)
    /\ returned' = Append(returned, ExecutionFailed(MSG_invalid))
    /\ run_pc' = "done"
    /\ cause' = "validation"
    /\ UNCHANGED <<curl_command, enhanced_command, spawned, raised, notRunVars>>

\* main.py:194-206: enhance, then hand the text to the shell
RunSpawn ==
    /\ run_pc = "start"
    /\ IsCurlCommand(curl_command)
    /\ enhanced_command' = enhance_curl_command(curl_command)
    /\ spawned' = Append(spawned, enhanced_command')
    /\ run_pc' = "running"
    /\ UNCHANGED <<curl_command, returned, raised, cause, notRunVars>>

\* main.py:210-220: the process ended with exit code 0
ProcExitZero ==
    /\ run_pc = "running"
    /\ \E out \in Stdouts, ms \in ElapsedMs :
          LET response_data == parse_curl_response(out)
          IN  returned' = Append(returned,
                  ExecuteCurlResponse(TRUE, response_data.status_code,
                      response_data.headers, response_data.body, ms, <<>>))
    /\ run_pc' = "done"
    /\ cause' = "exit_zero"
    /\ UNCHANGED <<curl_command, enhanced_command, spawned, raised, notRunVars>>

\* main.py:221-232: the process ended with another exit code
ProcExitNonZero ==
    /\ run_pc = "running"
    /\ \E rc \in ReturnCodes \ {0}, err \in Stderrs, ms \in ElapsedMs :
          LET error_message == IF Len(err) > 0 THEN Strip(err) ELSE MSG_unknown
          IN  returned' = Append(returned,
                  ExecuteCurlResponse(FALSE, 0, EmptyDict, <<>>, ms, <<error_message>>))
    /\ run_pc' = "done"
    /\ cause' = "exit_nonzero"
    /\ UNCHANGED <<curl_command, enhanced_command, spawned, raised, notRunVars>>

\* a timeout handler that reports the measured time
ProcTimeout_Measured ==
    /\ run_pc = "running"
    /\ \E ms \in {30004, 30017} :
          returned' = Append(returned,
              ExecuteCurlResponse(FALSE, 0, EmptyDict, <<>>, ms, <<MSG_timeout>>))
    /\ run_pc' = "done"
    /\ cause' = "timeout"
    /\ UNCHANGED <<curl_command, enhanced_command, spawned, raised, notRunVars>>

\* main.py:234-243: subprocess.TimeoutExpired
ProcTimeout ==
    /\ run_pc = "running"
    /\ returned' = Append(returned,
           ExecuteCurlResponse(FALSE, 0, EmptyDict, <<>>, TimeoutMs, <<MSG_timeout>>))
    /\ run_pc' = "done"
    /\ cause' = "timeout"
    /\ UNCHANGED <<curl_command, enhanced_command, spawned, raised, notRunVars>>

\* main.py:245-254: any other exception of subprocess.run
ProcException ==
    /\ run_pc = "running"
    /\ \E text \in ExceptionTexts :
          returned' = Append(returned, ExecutionFailed(text))
    /\ run_pc' = "done"
    /\ cause' = "exception"
    /\ UNCHANGED <<curl_command, enhanced_command, spawned, raised, notRunVars>>

(***************************************************************************)
(* The command texts a caller may send                                     *)
(***************************************************************************)

CMD_plain == <<"c","u","r","l"," ","h","t","t","p",":","/","/","h","/">>  \* "curl http://h/"
CMD_padded == <<" "," ","c","u","r","l"," ","h","t","t","p",":","/","/","h","/","\n">>  \* "  curl http://h/\n"
CMD_tab == <<"c","u","r","l","\t","h","t","t","p",":","/","/","h","/">>  \* "curl\thttp://h/"
CMD_echo == <<"e","c","h","o"," ","c","u","r","l"," ","h","t","t","p",":","/","/","h","/">>  \* "echo curl http://h/"
CMD_wget == <<"w","g","e","t"," ","h","t","t","p",":","/","/","h","/">>  \* "wget http://h/"
CMD_upper == <<"C","u","r","l"," ","h","t","t","p",":","/","/","h","/">>  \* "Curl http://h/"
CMD_built == <<"c","u","r","l"," ","\\","\n"," "," ","-","X"," ","P","O","S","T"," ","\\","\n"," "," ","-","H"," ","\"","x","-","a","p","i","-","k","e","y",":"," ","*","*","*","M","A","S","K","E","D","*","*","*","\""," ","\\","\n"," "," ","-","-","d","a","t","a"," ","'","{","}","'"," ","\\","\n"," "," ","'","h","t","t","p",":","/","/","h","/","'">>  \* "curl \\\n  -X POST \\\n  -H \"x-api-key: ***MASKED***\" \\\n  --data '{}' \\\n  'http://h/'"
CMD_url_i == <<"c","u","r","l"," ","'","h","t","t","p",":","/","/","h","/","a","-","i","'">>  \* "curl 'http://h/a-i'"
CMD_lang == <<"c","u","r","l"," ","-","H"," ","\"","A","c","c","e","p","t","-","L","a","n","g","u","a","g","e",":"," ","e","n","\""," ","'","h","t","t","p",":","/","/","h","/","'">>  \* "curl -H \"Accept-Language: en\" 'http://h/'"
CMD_agent == <<"c","u","r","l"," ","-","H"," ","\"","u","s","e","r","-","a","g","e","n","t",":"," ","x","-","w","3","\""," ","'","h","t","t","p",":","/","/","x","-","m","/","'">>  \* "curl -H \"user-agent: x-w3\" 'http://x-m/'"
CMD_short == <<"c","u","r","l"," ","-","i"," ","-","w"," ","'","%","{","h","t","t","p","_","c","o","d","e","}","'"," ","-","m"," ","5"," ","-","-","c","o","n","n","e","c","t","-","t","i","m","e","o","u","t"," ","2"," ","-","L"," ","-","k"," ","h","t","t","p",":","/","/","h","/">>  \* "curl -i -w '%{http_code}' -m 5 --connect-timeout 2 -L -k http://h/"
CMD_long == <<"c","u","r","l"," ","-","-","i","n","c","l","u","d","e"," ","-","-","w","r","i","t","e","-","o","u","t"," ","x"," ","-","-","m","a","x","-","t","i","m","e"," ","5"," ","-","-","c","o","n","n","e","c","t","-","t","i","m","e","o","u","t"," ","2"," ","-","-","l","o","c","a","t","i","o","n"," ","-","-","i","n","s","e","c","u","r","e"," ","h","t","t","p",":","/","/","h","/">>  \* "curl --include --write-out x --max-time 5 --connect-timeout 2 --location --insecure http://h/"
CMD_chain == <<"c","u","r","l"," ","h","t","t","p",":","/","/","h","/",";"," ","i","d">>  \* "curl http://h/; id"
CMD_curlx == <<"c","u","r","l","x"," ","h","t","t","p",":","/","/","h","/">>  \* "curlx http://h/"

CommandTexts ==
    {CMD_plain, CMD_padded, CMD_tab, CMD_echo, CMD_wget, CMD_upper, CMD_built,
     CMD_url_i, CMD_lang, CMD_agent, CMD_short, CMD_long, CMD_chain, CMD_curlx}

CommandParts == {S_curl, S_i, <<" ">>, <<"x">>}

\* the largest number of parts a composed command text has
MaxCommandParts == 3

RECURSIVE Concats(_, _)
Concats(parts, n) ==
    IF n = 0 THEN {<<>>}
    ELSE LET shorter == Concats(parts, n - 1)
         IN  shorter \cup {s \o p : s \in shorter, p \in parts}

Commands == CommandTexts \cup Concats(CommandParts, MaxCommandParts)

(***************************************************************************)
(* Synthetic curl output: what curl -i -w '\n---CURL_STATUS_CODE:..---\n'   *)
(* prints for a status, a header block and a body                          *)
(***************************************************************************)

STATUS_LINE == <<"H","T","T","P","/","1",".","1"," ","2","0","0"," ","O","K">>  \* "HTTP/1.1 200 OK"
COLON_SP == <<":"," ">>  \* ": "
CRLF == <<"\r","\n">>  \* "\r\n"

\* %{http_code}: three decimal digits
Digits3(n) ==
    LET d == <<"0","1","2","3","4","5","6","7","8","9">>
    IN  <<d[((n \div 100) % 10) + 1], d[((n \div 10) % 10) + 1], d[(n % 10) + 1]>>

RECURSIVE HeaderLines(_, _)
HeaderLines(pairs, eol) ==
    IF Len(pairs) = 0 THEN <<>>
    ELSE eol \o Head(pairs)[1] \o COLON_SP \o Head(pairs)[2] \o HeaderLines(Tail(pairs), eol)

SyntheticOutput(inj) ==
    STATUS_LINE \o HeaderLines(inj.headers, inj.eol) \o inj.eol \o inj.eol
        \o inj.body \o LF \o MARK_HEAD \o Digits3(inj.status) \o MARK_TAIL \o LF

InjStatuses == {200, 7}

InjEols == {CRLF, LF}

InjHeaderBlocks ==
    { <<>>,
      << <<<<"C","o","n","t","e","n","t","-","T","y","p","e">>, <<"t","e","x","t","/","p","l","a","i","n">>>> >>,
      << <<<<"X","-","I","d">>, <<"a",":","b">>>>, <<<<"A","c","c","e","p","t">>, <<>>>> >>,
      << <<<<"K">>, <<"v">>>>, <<<<"k">>, <<"w">>>> >>,
      << <<<<"K">>, <<" ","v">>>> >>,
      << <<<<"K">>, <<"v","\t">>>> >>,
      << <<<<"a",":","b">>, <<"v">>>> >>,
      << <<<<" ","K">>, <<"v">>>> >> }

BodyParts == {<<"a">>, <<" ">>, <<"\n">>, <<"\r","\n","\r","\n">>, <<"x","\r","\n","\r","\n","y">>, MARK_HEAD, <<"-","-","-","C","U","R","L","_","S","T","A","T","U","S","_","C","O","D","E",":","5","0","0","-","-","-">>}

\* the largest number of parts an injected body has
MaxBodyParts == 2

InjBodies == Concats(BodyParts, MaxBodyParts)

Injections ==
    [status : InjStatuses, headers : InjHeaderBlocks, eol : InjEols, body : InjBodies]

NoInjection == [status |-> 0, headers |-> <<>>, eol |-> LF, body |-> <<>>]

\* main.py:212: the decoding routine applied to the output of the process
Decode ==
    /\ decoded = <<>>
    /\ decoded' = <<parse_curl_response(SyntheticOutput(injected))>>
    /\ UNCHANGED <<injected, notDecVars>>

(***************************************************************************)
(* The archive parser (backend/app/services/har_parser.py)                 *)
(*                                                                         *)
(* A JSON value read from the archive is a record [t, s, n]: t is the      *)
(* Python type the decoder gave it ("missing" when the key is absent),     *)
(* s its characters when it is a str and n its value when it is an int.    *)
(* A "list" value stands for a list of one element.  Header values and    *)
(* URLs are taken from texts without percent escapes.                      *)
(***************************************************************************)

JStr(s) == [t |-> "str", s |-> s, n |-> 0]

JInt(n) == [t |-> "int", s |-> <<>>, n |-> n]

JNull == [t |-> "null", s |-> <<>>, n |-> 0]

JList == [t |-> "list", s |-> <<>>, n |-> 0]

JMissing == [t |-> "missing", s |-> <<>>, n |-> 0]

\* dict.get(key, default): the default only when the key is absent
Get(j, default) == IF j.t = "missing" THEN default ELSE j

\* Python truth value of a decoded JSON value
Truthy(j) ==
    CASE j.t = "str" -> Len(j.s) > 0
      [] j.t = "int" -> j.n # 0
      [] j.t = "list" -> TRUE
      [] OTHER -> FALSE

\* calling .get on the value works only for a dict
HasGet(t) == t = "dict"

\* har_parser.py:102-103: urlparse(url).query, the text between the first
\* '?' and the fragment
UrlQuery(url) ==
    LET nofrag == SplitOnce(url, <<"#">>)[1]
        parts == SplitOnce(nofrag, <<"?">>)
    IN IF Len(parts) = 2 THEN parts[2] ELSE <<>>

\* unquote of parse_qs for texts without percent escapes: '+' is a space
PlusToSpace(s) == [i \in 1..Len(s) |-> IF s[i] = "+" THEN " " ELSE s[i]]

\* har_parser.py:104: parse_qs(query) then the first value of every name;
\* fields without '=' or with a blank value are dropped
RECURSIVE FirstValues(_, _)
FirstValues(fields, acc) ==
    IF fields = <<>> THEN acc
    ELSE LET nv == SplitOnce(fields[1], <<"=">>)
             name == PlusToSpace(nv[1])
         IN IF Len(nv) = 2 /\ Len(nv[2]) > 0 /\ name \notin DOMAIN acc
            THEN FirstValues(Tail(fields), DictSet(acc, name, PlusToSpace(nv[2])))
            ELSE FirstValues(Tail(fields), acc)

ParseQueryParams(url) ==
    LET query == UrlQuery(url)
    IN IF Len(query) > 0 THEN FirstValues(Split(query, <<"&">>), EmptyDict) ELSE EmptyDict

\* har_parser.py:93-98: the header dictionary, names lower-cased, a later
\* header of the same name replacing an earlier one.  The dictionary is
\* kept as the sequence of its <<name, value>> pairs in the order of insertion,
\* the order in which a Python dict is walked
OdKeys(d) == {d[i][1] : i \in 1..Len(d)}

OdGet(d, k) == d[CHOOSE i \in 1..Len(d) : d[i][1] = k][2]

\* d[k] = v: a new key goes to the end, a known key keeps its place
OdSet(d, k, v) ==
    IF k \in OdKeys(d)
    THEN [i \in 1..Len(d) |-> IF d[i][1] = k THEN <<k, v>> ELSE d[i]]
    ELSE Append(d, <<k, v>>)

RECURSIVE HeaderDict(_, _)
HeaderDict(items, acc) ==
    IF items = <<>> THEN acc
    ELSE LET name == Get(items[1].name, JStr(<<>>))
             value == Get(items[1].value, JStr(<<>>))
         IN IF Truthy(name) /\ Truthy(value)
            THEN HeaderDict(Tail(items), OdSet(acc, Lower(name.s), value.s))
            ELSE HeaderDict(Tail(items), acc)

\* a header item on which lines 95-98 raise
HeaderRaises(item) ==
    \/ ~HasGet(item.t)
    \/ /\ Truthy(Get(item.name, JStr(<<>>)))
       /\ Truthy(Get(item.value, JStr(<<>>)))
       /\ item.name.t # "str"

\* har_parser.py:107-108: body = post_data.get('text', '') if post_data else ''
EntryBody(postData) ==
    IF postData.t = "dict" THEN Get(postData.text, JStr(<<>>)) ELSE JStr(<<>>)

\* har_parser.py:118-120: the response preview
PreviewLimit == 1000

Ellipsis == <<".",".",".">>  \* "..."

\* len() of a decoded value that has one
JLen(j) == IF j.t = "str" THEN Len(j.s) ELSE IF j.t = "list" THEN 1 ELSE 0

ResponsePreview(text) ==
    IF JLen(text) > PreviewLimit
    THEN JStr(SubSeq(text.s, 1, PreviewLimit) \o Ellipsis)
    ELSE text

\* the statements of _parse_entry that raise, in the order they are run;
\* the url test of line 89 returns before any of the later ones
RaisesBeforeUrl(entry) ==
    \/ ~HasGet(entry.t)
    \/ entry.request.t # "missing" /\ ~HasGet(entry.request.t)

EntryUrl(entry) ==
    IF entry.request.t = "missing" THEN JStr(<<>>) ELSE Get(entry.request.url, JStr(<<>>))

RaisesAfterUrl(entry) ==
    LET request == entry.request
        response == entry.response
        body == EntryBody(request.postData)
    IN \/ request.headers.t \notin {"missing", "list"}
       \/ request.headers.t = "list" /\ \E i \in 1..Len(request.headers.items) :
              HeaderRaises(request.headers.items[i])
       \/ EntryUrl(entry).t # "str"
       \/ request.postData.t \in {"str", "int", "list"}
       \/ body.t = "int" /\ Truthy(body)
       \/ response.t # "missing" /\ ~HasGet(response.t)
       \/ response.t = "dict" /\ response.content.t # "missing" /\ ~HasGet(response.content.t)
       \/ response.t = "dict" /\ response.content.t = "dict"
              /\ Get(response.content.text, JStr(<<>>)).t \in {"null", "int"}

\* har_parser.py:79-138: None is the empty sequence, a request dictionary a
\* sequence of one record
_parse_entry(entry, index) ==
    IF RaisesBeforeUrl(entry) THEN <<>>
    ELSE IF ~Truthy(EntryUrl(entry)) THEN <<>>
    ELSE IF RaisesAfterUrl(entry) THEN <<>>
    ELSE LET request == entry.request
             response == entry.response
             content == response.content
             hasContent == response.t = "dict" /\ content.t = "dict"
             body == EntryBody(request.postData)
         IN << [index |-> index,
                method |-> Get(request.method, JStr(<<"G","E","T">>)),
                url |-> EntryUrl(entry).s,
                headers |-> IF request.headers.t = "list"
                            THEN HeaderDict(request.headers.items, <<>>)
                            ELSE <<>>,
                query_params |-> ParseQueryParams(EntryUrl(entry).s),
                body |-> body,
                body_size |-> IF Truthy(body) THEN JLen(body) ELSE 0,
                response_status |-> IF response.t = "dict"
                                    THEN Get(response.status, JInt(0)) ELSE JInt(0),
                response_content_type |-> IF hasContent
                                          THEN Get(content.mimeType, JStr(<<>>))
                                          ELSE JStr(<<>>),
                response_size |-> IF hasContent THEN Get(content.size, JInt(0)) ELSE JInt(0),
                response_body |-> IF hasContent
                                  THEN ResponsePreview(Get(content.text, JStr(<<>>)))
                                  ELSE JStr(<<>>)] >>

\* config.py:46
INCLUDE_STATUS_CODES == {200, 201, 202, 204, 206}

\* config.py:35-44
EXCLUDE_MIME_TYPES ==
    << <<"t","e","x","t","/","h","t","m","l">>, <<"t","e","x","t","/","c","s","s">>, <<"a","p","p","l","i","c","a","t","i","o","n","/","j","a","v","a","s","c","r","i","p","t">>, <<"t","e","x","t","/","j","a","v","a","s","c","r","i","p","t">>,
       <<"i","m","a","g","e","/">>, <<"f","o","n","t","/">>, <<"a","u","d","i","o","/">>, <<"v","i","d","e","o","/">> >>

\* har_parser.py:156
api_content_types == << <<"a","p","p","l","i","c","a","t","i","o","n","/","j","s","o","n">>, <<"a","p","p","l","i","c","a","t","i","o","n","/","x","m","l">>, <<"t","e","x","t","/","x","m","l">>, <<"t","e","x","t","/","p","l","a","i","n">> >>

\* har_parser.py:169
BodyMethods == { <<"P","O","S","T">>, <<"P","U","T">>, <<"P","A","T","C","H">> }

\* har_parser.py:144: status not in INCLUDE_STATUS_CODES
StatusAllowed(status) == status.t = "int" /\ status.n \in INCLUDE_STATUS_CODES

\* har_parser.py:148: .lower() of a content type that is not a str raises
ShouldIncludeRaises(request) ==
    /\ StatusAllowed(request.response_status)
    /\ request.response_content_type.t # "str"

\* the same rules with the query-parameter rule tried before the deny-list
_should_include_request_QueryFirst(request) ==
    LET status == request.response_status
        content_type == Lower(request.response_content_type.s)
    IN IF ~StatusAllowed(status) THEN FALSE
       ELSE IF DOMAIN request.query_params # {} THEN TRUE
       ELSE IF \E i \in 1..Len(EXCLUDE_MIME_TYPES) :
                   StartsWith(content_type, Lower(EXCLUDE_MIME_TYPES[i])) THEN FALSE
       ELSE IF \E i \in 1..Len(api_content_types) :
                   StartsWith(content_type, api_content_types[i]) THEN TRUE
       ELSE IF Len(content_type) = 0 /\ 200 <= status.n /\ status.n < 300 THEN TRUE
       ELSE IF request.method.t = "str" /\ request.method.s \in BodyMethods
                   /\ Truthy(request.body) THEN TRUE
       ELSE FALSE

\* har_parser.py:140-172
_should_include_request(request) ==
    LET status == request.response_status
        content_type == Lower(request.response_content_type.s)
    IN IF ~StatusAllowed(status) THEN FALSE
       ELSE IF \E i \in 1..Len(EXCLUDE_MIME_TYPES) :
                   StartsWith(content_type, Lower(EXCLUDE_MIME_TYPES[i])) THEN FALSE
       ELSE IF \E i \in 1..Len(api_content_types) :
                   StartsWith(content_type, api_content_types[i]) THEN TRUE
       ELSE IF Len(content_type) = 0 /\ 200 <= status.n /\ status.n < 300 THEN TRUE
       ELSE IF DOMAIN request.query_params # {} THEN TRUE
       ELSE IF request.method.t = "str" /\ request.method.s \in BodyMethods
                   /\ Truthy(request.body) THEN TRUE
       ELSE FALSE

\* har_parser.py:195
UrlKeywords == { <<"a","p","i">>, <<"v","1">>, <<"v","2">>, <<"r","e","s","t">>, <<"g","r","a","p","h","q","l">> }

\* har_parser.py:189-190: the chained comparison raises unless the size is a number
ScoreRaises(req) == req.response_size.t # "int"

\* har_parser.py:177-202
priority_score(req) ==
      (IF Contains(Lower(req.response_content_type.s), <<"j","s","o","n">>) THEN 10 ELSE 0)
    + (IF req.response_status.t = "int" /\ 200 <= req.response_status.n
             /\ req.response_status.n < 300 THEN 5 ELSE 0)
    + (IF 100 < req.response_size.n /\ req.response_size.n < 10000 THEN 3 ELSE 0)
    + (IF \E keyword \in UrlKeywords : Contains(Lower(req.url), keyword) THEN 8 ELSE 0)
    + (IF req.method # JStr(<<"G","E","T">>) THEN 2 ELSE 0)

\* an ascending sort in place of the descending one
InsertByScore_Ascending(sorted, req) ==
    LET k == Cardinality({i \in 1..Len(sorted) :
                             priority_score(sorted[i]) <= priority_score(req)})
    IN SubSeq(sorted, 1, k) \o <<req>> \o SubSeq(sorted, k + 1, Len(sorted))

\* sorted(requests, key=priority_score, reverse=True): a stable sort, the
\* requests of equal score stay in the order they came in
InsertByScore(sorted, req) ==
    LET k == Cardinality({i \in 1..Len(sorted) :
                             priority_score(sorted[i]) >= priority_score(req)})
    IN SubSeq(sorted, 1, k) \o <<req>> \o SubSeq(sorted, k + 1, Len(sorted))

RECURSIVE SortedByScore(_, _)
SortedByScore(requests, n) ==
    IF n = 0 THEN <<>> ELSE InsertByScore(SortedByScore(requests, n - 1), requests[n])

\* har_parser.py:205-206
_prioritize_requests(requests, cap) ==
    LET sorted_requests == SortedByScore(requests, Len(requests))
    IN SubSeq(sorted_requests, 1, IF cap < Len(requests) THEN cap ELSE Len(requests))

\* har_parser.py:205: one key that raises makes the whole sort raise
PrioritizeRaises(requests) == \E i \in 1..Len(requests) : ScoreRaises(requests[i])

\* the check without its last conjunct
_validate_har_structure_AnyEntries(har_data) ==
    /\ har_data.top = "dict"
    /\ har_data.log # "missing"
    /\ har_data.log = "dict"
    /\ har_data.entries_t # "missing"

\* har_parser.py:69-77
_validate_har_structure(har_data) ==
    /\ har_data.top = "dict"
    /\ har_data.log # "missing"
    /\ har_data.log = "dict"
    /\ har_data.entries_t # "missing"
    /\ har_data.entries_t = "list"

HARParsingError(message) == [type |-> "HARParsingError", message |-> message]

(***************************************************************************)
(* Archives handed to parse_har_file                                       *)
(***************************************************************************)

H_accept == << [t |-> "dict", name |-> JStr(<<"A","c","c","e","p","t">>), value |-> JStr(<<"*","/","*">>)] >>

\* an entry as a browser writes it
EntryOf(method, url, body, status, mime, size) ==
    [t |-> "dict",
     request |-> [t |-> "dict",
                  method |-> JStr(method),
                  url |-> JStr(url),
                  headers |-> [t |-> "list", items |-> H_accept],
                  postData |-> IF body = <<>>
                               THEN [t |-> "missing", text |-> JMissing]
                               ELSE [t |-> "dict", text |-> JStr(body)]],
     response |-> [t |-> "dict",
                   status |-> JInt(status),
                   content |-> [t |-> "dict",
                                mimeType |-> JStr(mime),
                                size |-> JInt(size),
                                text |-> JStr(<<"{","}">>)]]]

M_GET == <<"G","E","T">>  \* "GET"
M_POST == <<"P","O","S","T">>  \* "POST"
CT_json == <<"a","p","p","l","i","c","a","t","i","o","n","/","j","s","o","n">>  \* "application/json"
CT_plain == <<"t","e","x","t","/","p","l","a","i","n">>  \* "text/plain"
CT_html == <<"t","e","x","t","/","h","t","m","l">>  \* "text/html"
CT_bin == <<"a","p","p","l","i","c","a","t","i","o","n","/","o","c","t","e","t","-","s","t","r","e","a","m">>  \* "application/octet-stream"

E_api == EntryOf(M_GET, <<"h","t","t","p",":","/","/","h","/","a","p","i","/","i","t","e","m","s","?","x","=","1">>, <<>>, 200, CT_json, 500)
E_post == EntryOf(M_POST, <<"h","t","t","p",":","/","/","h","/","s","u","b","m","i","t">>, <<"a","=","1">>, 201, <<>>, 0)
E_plain == EntryOf(M_GET, <<"h","t","t","p",":","/","/","h","/","p">>, <<>>, 200, CT_plain, 50)
E_query == EntryOf(M_GET, <<"h","t","t","p",":","/","/","h","/","q","?","a","=","1">>, <<>>, 206, CT_bin, 20000)
E_html == EntryOf(M_GET, <<"h","t","t","p",":","/","/","h","/">>, <<>>, 200, CT_html, 2000)

\* entries a broken exporter writes: not an object, a null mimeType, a null size
M_null == [E_api EXCEPT !.t = "null"]
M_mime == [E_plain EXCEPT !.response.content.mimeType = JNull]
M_size == [E_post EXCEPT !.response.content.size = JNull]

Entries == {E_api, E_post, E_plain, E_query, E_html, M_null, M_mime, M_size}

MaxEntries == 3

MaxCap == 2

EntryLists == UNION {[1..n -> Entries] : n \in 0..MaxEntries}

Shape(text, top, log, entries_t) ==
    [text |-> text, top |-> top, log |-> log, entries_t |-> entries_t]

GoodShape == Shape("json", "dict", "dict", "list")

BadShapes ==
    { Shape("not_utf8", "missing", "missing", "missing"),
      Shape("not_json", "missing", "missing", "missing"),
      Shape("json", "list", "missing", "missing"),
      Shape("json", "null", "missing", "missing"),
      Shape("json", "dict", "missing", "missing"),
      Shape("json", "dict", "null", "missing"),
      Shape("json", "dict", "list", "missing"),
      Shape("json", "dict", "dict", "missing"),
      Shape("json", "dict", "dict", "null"),
      Shape("json", "dict", "dict", "dict") }

Archive(shape, entries) ==
    [text |-> shape.text, top |-> shape.top, log |-> shape.log,
     entries_t |-> shape.entries_t, entries |-> entries]

Archives ==
    {Archive(GoodShape, es) : es \in EntryLists}
    \cup {Archive(s, es) : s \in BadShapes, es \in {<<>>, <<E_api>>, <<E_api, E_post>>}}

NoArchive == Archive(Shape("none", "missing", "missing", "missing"), <<>>)

(***************************************************************************)
(* parse_har_file, step by step                                            *)
(***************************************************************************)

\* har_parser.py:34, 64-67: the bytes are not UTF-8 or the text is not JSON
ParseDecodeError ==
    /\ har_pc = "start"
    /\ har_content.text # "json"
    /\ har_error' = IF har_content.text = "not_json"
                    THEN <<HARParsingError("Invalid JSON format")>>
                    ELSE <<HARParsingError("Failed to parse HAR file: codec can't decode")>>
    /\ har_pc' = "failed"
    /\ UNCHANGED <<har_content, max_requests, entry_i, parsed_requests, har_result, notHarVars>>

\* har_parser.py:37-38, 66-67: the structural error, wrapped again by the handler
ParseInvalidStructure ==
    /\ har_pc = "start"
    /\ har_content.text = "json"
    /\ ~_validate_har_structure(har_content)
    /\ har_error' = <<HARParsingError("Failed to parse HAR file: Invalid HAR file structure")>>
    /\ har_pc' = "failed"
    /\ UNCHANGED <<har_content, max_requests, entry_i, parsed_requests, har_result, notHarVars>>

\* har_parser.py:41-45
ParseBegin ==
    /\ har_pc = "start"
    /\ har_content.text = "json"
    /\ _validate_har_structure(har_content)
    /\ har_pc' = "entries"
    /\ UNCHANGED <<har_content, max_requests, entry_i, parsed_requests, har_result,
                   har_error, notHarVars>>

\* har_parser.py:46-53: one turn of the loop; an exception of the filter is
\* taken by the handler of the loop and the entry is passed over
ParseEntry ==
    /\ har_pc = "entries"
    /\ entry_i < Len(har_content.entries)
    /\ LET parsed_request == _parse_entry(har_content.entries[entry_i + 1], entry_i)
       IN parsed_requests' =
              IF parsed_request # <<>>
                 /\ ~ShouldIncludeRaises(parsed_request[1])
                 /\ _should_include_request(parsed_request[1])
              THEN Append(parsed_requests, parsed_request[1])
              ELSE parsed_requests
    /\ entry_i' = entry_i + 1
    /\ UNCHANGED <<har_content, max_requests, har_pc, har_result, har_error, notHarVars>>

\* har_parser.py:58, 62: not more requests than the cap
ParseReturn ==
    /\ har_pc = "entries"
    /\ entry_i = Len(har_content.entries)
    /\ Len(parsed_requests) <= max_requests
    /\ har_result' = parsed_requests
    /\ har_pc' = "done"
    /\ UNCHANGED <<har_content, max_requests, entry_i, parsed_requests, har_error, notHarVars>>

\* har_parser.py:58-62
ParsePrioritize ==
    /\ har_pc = "entries"
    /\ entry_i = Len(har_content.entries)
    /\ Len(parsed_requests) > max_requests
    /\ ~PrioritizeRaises(parsed_requests)
    /\ har_result' = _prioritize_requests(parsed_requests, max_requests)
    /\ har_pc' = "done"
    /\ UNCHANGED <<har_content, max_requests, entry_i, parsed_requests, har_error, notHarVars>>

\* har_parser.py:60, 66-67: the sort key raises outside the handler of the loop
ParsePrioritizeError ==
    /\ har_pc = "entries"
    /\ entry_i = Len(har_content.entries)
    /\ Len(parsed_requests) > max_requests
    /\ PrioritizeRaises(parsed_requests)
    /\ har_error' = <<HARParsingError("Failed to parse HAR file: '<' not supported")>>
    /\ har_pc' = "failed"
    /\ UNCHANGED <<har_content, max_requests, entry_i, parsed_requests, har_result, notHarVars>>

(***************************************************************************)
(* _should_include_request on one request dictionary                       *)
(***************************************************************************)

FilterMethods == {M_GET, M_POST, <<"P","U","T">>, <<"P","A","T","C","H">>, <<"D","E","L","E","T","E">>, <<"p","o","s","t">>}

FilterUrls == { <<"h","t","t","p",":","/","/","h","/","a">>, <<"h","t","t","p",":","/","/","h","/","a","?","x","=","1">> }

FilterBodies == {<<>>, <<"b">>}

FilterStatuses == {200, 201, 204, 206, 299, 301, 404, 500, 0}

FilterContentTypes ==
    { <<>>, CT_json, <<"A","p","p","l","i","c","a","t","i","o","n","/","J","S","O","N",";"," ","c","h","a","r","s","e","t","=","u","t","f","-","8">>, CT_html, <<"T","e","x","t","/","H","T","M","L">>,
      <<"T","E","X","T","/","C","S","S">>, <<"a","p","p","l","i","c","a","t","i","o","n","/","j","a","v","a","s","c","r","i","p","t">>, <<"t","e","x","t","/","j","a","v","a","s","c","r","i","p","t">>, <<"i","m","a","g","e","/","p","n","g">>,
      <<"f","o","n","t","/","w","o","f","f","2">>, <<"a","u","d","i","o","/","m","p","e","g">>, <<"v","i","d","e","o","/","m","p","4">>, <<"a","p","p","l","i","c","a","t","i","o","n","/","x","m","l">>, <<"t","e","x","t","/","x","m","l">>,
      CT_plain, <<"a","p","p","l","i","c","a","t","i","o","n","/","p","d","f">>, <<"t","e","x","t","/","h","t","m">>, CT_bin, <<"x","-","i","m","a","g","e","/","p","n","g">> }

\* the request dictionaries _parse_entry makes of well-typed entries
Exchanges ==
    { _parse_entry(EntryOf(m, u, b, s, ct, 500), 0)[1] :
          m \in FilterMethods, u \in FilterUrls, b \in FilterBodies,
          s \in FilterStatuses, ct \in FilterContentTypes }

NoExchange == _parse_entry(EntryOf(M_GET, <<"-">>, <<>>, 0, <<>>, 0), 0)[1]

\* har_parser.py:49: the filter applied to a parsed request
Filter ==
    /\ included = <<>>
    /\ exchange # NoExchange
    /\ included' = <<_should_include_request(exchange)>>
    /\ UNCHANGED <<exchange, notFiltVars>>

(***************************************************************************)
(* The oracle service (backend/app/services/llm_service.py)                *)
(*                                                                         *)
(* A JSON number with a fraction is kept in hundredths: JNum(25) is 0.25.  *)
(***************************************************************************)

JNum(h) == [t |-> "num", s |-> <<>>, n |-> h]

\* the value of a JSON number in hundredths
Hundredths(j) == IF j.t = "int" THEN 100 * j.n ELSE j.n

\* llm_service.py:122-125
important_header_keys ==
    { <<"a","u","t","h","o","r","i","z","a","t","i","o","n">>, <<"c","o","n","t","e","n","t","-","t","y","p","e">>, <<"a","c","c","e","p","t">>, <<"u","s","e","r","-","a","g","e","n","t">>,
      <<"x","-","a","p","i","-","k","e","y">>, <<"x","-","a","u","t","h","-","t","o","k","e","n">>, <<"c","o","o","k","i","e">> }

\* llm_service.py:132-139: a text longer than the limit is cut and marked
Truncated(text, limit) ==
    IF Truthy(text) /\ JLen(text) > limit
    THEN JStr(SubSeq(text.s, 1, limit) \o Ellipsis)
    ELSE text

\* llm_service.py:116-152
_compress_request_for_analysis(request, index) ==
    [index |-> index,
     method |-> request.method,
     url |-> request.url,
     headers |-> [key \in OdKeys(request.headers) \cap important_header_keys |->
                      OdGet(request.headers, key)],
     query_params |-> request.query_params,
     body |-> Truncated(request.body, 500),
     response_status |-> request.response_status,
     response_content_type |-> request.response_content_type,
     response_size |-> request.response_size,
     response_body_preview |-> Truncated(request.response_body, 300)]

\* the candidates tagged with the index of the source Exchange
CompressAll_SourceIndex(requests) ==
    [i \in 1..Len(requests) |-> _compress_request_for_analysis(requests[i], requests[i].index)]

\* llm_service.py:41-44: the candidates are tagged by enumerate
CompressAll(requests) ==
    [i \in 1..Len(requests) |-> _compress_request_for_analysis(requests[i], i - 1)]

\* llm_service.py:94-95: the members read from the answer, with their defaults
AnswerIndex(a) == Get(a.selected_index, JInt(-1))

AnswerConfidence(a) == Get(a.confidence, JNum(0))

\* llm_service.py:106: 0 <= selected_index < len(requests)
IndexInRange(idx, n) == Hundredths(idx) >= 0 /\ Hundredths(idx) < 100 * n

\* a threshold that accepts 0.3 itself
Confident_AtLeast(conf) == Hundredths(conf) >= 30

\* llm_service.py:106: confidence > 0.3
Confident(conf) == Hundredths(conf) > 30

IsNumber(j) == j.t \in {"int", "num"}

\* llm_service.py:93-107: the statements that raise on the answer a: the text
\* is no JSON, the value has no get, a comparison meets a value that is not a
\* number, or the list is indexed by a number that is not an int
AnswerRaises(a, n) ==
    \/ a.text # "json"
    \/ a.top # "dict"
    \/ ~IsNumber(AnswerIndex(a))
    \/ IndexInRange(AnswerIndex(a), n) /\ ~IsNumber(AnswerConfidence(a))
    \/ /\ IndexInRange(AnswerIndex(a), n)
       /\ IsNumber(AnswerConfidence(a))
       /\ Confident(AnswerConfidence(a))
       /\ AnswerIndex(a).t # "int"

\* llm_service.py:106: the answer selects a request
AnswerSelects(a, n) ==
    /\ ~AnswerRaises(a, n)
    /\ IndexInRange(AnswerIndex(a), n)
    /\ Confident(AnswerConfidence(a))

LLMServiceError(message) == [type |-> "LLMServiceError", message |-> message]

\* the functional form of har_parser.py:45-53, the loop over the first n entries
RECURSIVE LoopResult(_, _)
LoopResult(entries, n) ==
    IF n = 0 THEN <<>>
    ELSE LET before == LoopResult(entries, n - 1)
             parsed_request == _parse_entry(entries[n], n - 1)
         IN IF parsed_request # <<>>
               /\ ~ShouldIncludeRaises(parsed_request[1])
               /\ _should_include_request(parsed_request[1])
            THEN Append(before, parsed_request[1])
            ELSE before

\* har_parser.py:57-62 for lists whose sort keys do not raise
ParseResult(entries, cap) ==
    LET kept == LoopResult(entries, Len(entries))
    IN IF Len(kept) > cap THEN _prioritize_requests(kept, cap) ELSE kept

\* the candidate lists: what parse_har_file returns for archives with entries
\* passed over, filtered out and reordered
CandidateEntries == {E_api, E_post, E_html, M_null}

CandidateLists ==
    { ParseResult(es, cap) :
          es \in UNION {[1..n -> CandidateEntries] : n \in 0..MaxEntries}, cap \in 1..MaxCap }

Answer(text, top, selected_index, confidence, reasoning) ==
    [text |-> text, top |-> top, selected_index |-> selected_index,
     confidence |-> confidence, reasoning |-> reasoning]

R_text == JStr(<<"b","e","c","a","u","s","e">>)

\* answers of the shape the schema requires
WellFormedAnswers ==
    { Answer("json", "dict", JInt(i), c, R_text) :
          i \in {-1, 0, 1, 2, 3, 5},
          c \in {JNum(0), JNum(25), JNum(30), JNum(31), JNum(90), JInt(1), JInt(0)} }

\* answers that are no JSON, no object, lack a member or give it another type
MalformedAnswers ==
    { Answer("not_json", "missing", JMissing, JMissing, JMissing),
      Answer("none", "missing", JMissing, JMissing, JMissing),
      Answer("json", "list", JMissing, JMissing, JMissing),
      Answer("json", "null", JMissing, JMissing, JMissing),
      Answer("json", "str", JMissing, JMissing, JMissing),
      Answer("json", "dict", JMissing, JMissing, JMissing),
      Answer("json", "dict", JMissing, JNum(90), R_text),
      Answer("json", "dict", JInt(0), JMissing, R_text),
      Answer("json", "dict", JInt(0), JNum(90), JMissing),
      Answer("json", "dict", JInt(5), JNum(90), JMissing),
      Answer("json", "dict", JNull, JNum(90), R_text),
      Answer("json", "dict", JStr(<<"0">>), JNum(90), R_text),
      Answer("json", "dict", JNum(0), JNum(90), R_text),
      Answer("json", "dict", JNum(50), JNum(90), R_text),
      Answer("json", "dict", JInt(0), JNull, R_text),
      Answer("json", "dict", JInt(0), JStr(<<"0",".","9">>), R_text),
      Answer("json", "dict", JInt(5), JStr(<<"0",".","9">>), R_text),
      Answer("json", "dict", JInt(0), JNum(90), JNull) }

Answers == WellFormedAnswers \cup MalformedAnswers

NoAnswer == Answer("none", "missing", JMissing, JMissing, JMissing)

(***************************************************************************)
(* find_best_request, step by step                                         *)
(***************************************************************************)

\* llm_service.py:41-48: the candidates are compressed and sent
LlmCompress ==
    /\ llm_pc = "start"
    /\ compressed_requests' = CompressAll(llm_requests)
    /\ llm_pc' = "awaiting"
    /\ UNCHANGED <<llm_requests, llm_answer, llm_result, llm_error, notLlmVars>>

\* llm_service.py:51, 112-114: the call to the oracle raises
OracleUnavailable ==
    /\ llm_pc = "awaiting"
    /\ llm_error' = <<LLMServiceError("Failed to analyze requests: connection error")>>
    /\ llm_pc' = "failed"
    /\ UNCHANGED <<llm_requests, compressed_requests, llm_answer, llm_result, notLlmVars>>

\* llm_service.py:93-106, 112-114: reading the answer raises
AnswerFails ==
    /\ llm_pc = "awaiting"
    /\ \E a \in Answers :
           /\ AnswerRaises(a, Len(llm_requests))
           /\ llm_answer' = <<a>>
    /\ llm_error' = <<LLMServiceError("Failed to analyze requests: answer not usable")>>
    /\ llm_pc' = "failed"
    /\ UNCHANGED <<llm_requests, compressed_requests, llm_result, notLlmVars>>

\* llm_service.py:106-107
AnswerMatch ==
    /\ llm_pc = "awaiting"
    /\ \E a \in Answers :
           /\ AnswerSelects(a, Len(llm_requests))
           /\ llm_answer' = <<a>>
           /\ llm_result' = <<llm_requests[AnswerIndex(a).n + 1]>>
    /\ llm_pc' = "matched"
    /\ UNCHANGED <<llm_requests, compressed_requests, llm_error, notLlmVars>>

\* llm_service.py:108-110
AnswerNoMatch ==
    /\ llm_pc = "awaiting"
    /\ \E a \in Answers :
           /\ ~AnswerRaises(a, Len(llm_requests))
           /\ ~AnswerSelects(a, Len(llm_requests))
           /\ llm_answer' = <<a>>
    /\ llm_pc' = "no_match"
    /\ UNCHANGED <<llm_requests, compressed_requests, llm_result, llm_error, notLlmVars>>

(***************************************************************************)
(* The command builder (backend/app/services/curl_generator.py)            *)
(*                                                                         *)
(* json.dumps(json.loads(body), indent=2) is computed on the text itself.  *)
(* The bodies are ASCII texts whose JSON strings hold no backslash and     *)
(* whose JSON numbers are integers; any other text is taken as no JSON.    *)
(***************************************************************************)

JsonWs == {" ", "\t", "\n", "\r"}

At(s, i) == IF i >= 1 /\ i <= Len(s) THEN s[i] ELSE ""

SkipWs(s, i) == SetMin({j \in i..(Len(s) + 1) : At(s, j) \notin JsonWs})

JsonFail == [ok |-> FALSE, next |-> 0, text |-> <<>>]

JsonOk(next, text) == [ok |-> TRUE, next |-> next, text |-> text]

JsonLiterals == << <<"t","r","u","e">>, <<"f","a","l","s","e">>, <<"n","u","l","l">>, <<"N","a","N">>, <<"I","n","f","i","n","i","t","y">>, <<"-","I","n","f","i","n","i","t","y">> >>

\* the text a string starting at the quote of position i stands for
JsonString(s, i) ==
    LET ends == {j \in (i + 1)..Len(s) : s[j] = "\""}
    IN IF At(s, i) # "\"" \/ ends = {} THEN JsonFail
       ELSE LET j == SetMin(ends)
                text == SubSeq(s, i + 1, j - 1)
            IN IF \E k \in 1..Len(text) : text[k] \in {"\\", "\n", "\r", "\t"}
               THEN JsonFail
               ELSE JsonOk(j + 1, text)

\* an integer starting at position i, written as json.dumps writes it
JsonNumber(s, i) ==
    LET neg == At(s, i) = "-"
        d == IF neg THEN i + 1 ELSE i
        n == SetMin({k \in 0..(Len(s) - d + 1) : At(s, d + k) \notin DIGITS})
        len == IF At(s, d) = "0" THEN 1 ELSE n
        digits == SubSeq(s, d, d + len - 1)
    IN IF n = 0 \/ At(s, d + len) \in {".", "e", "E"} THEN JsonFail
       ELSE JsonOk(d + len, IF neg /\ digits # <<"0">> THEN <<"-">> \o digits ELSE digits)

Indent(level) == [k \in 1..(2 * level) |-> " "]

RECURSIVE JoinWith(_, _)
JoinWith(texts, sep) ==
    IF Len(texts) = 0 THEN <<>>
    ELSE IF Len(texts) = 1 THEN texts[1]
    ELSE texts[1] \o sep \o JoinWith(Tail(texts), sep)

\* the lines of a container that is not empty, at the given level
Block(open, close, texts, level) ==
    <<open, "\n">> \o Indent(level + 1)
        \o JoinWith(texts, <<",", "\n">> \o Indent(level + 1))
        \o <<"\n">> \o Indent(level) \o <<close>>

RECURSIVE JsonValue(_, _, _), JsonItems(_, _, _), JsonMembers(_, _, _)
\* the value starting at position i, printed at the given level
JsonValue(s, i, level) ==
    LET c == At(s, i)
        lits == {k \in 1..Len(JsonLiterals) : IsPrefixAt(s, JsonLiterals[k], i)}
    IN CASE c = "\"" ->
               LET str == JsonString(s, i)
               IN IF str.ok THEN JsonOk(str.next, <<"\"">> \o str.text \o <<"\"">>) ELSE JsonFail
         [] c = "[" ->
               LET j == SkipWs(s, i + 1)
                   items == JsonItems(s, j, level + 1)
               IN IF At(s, j) = "]" THEN JsonOk(j + 1, <<"[", "]">>)
                  ELSE IF items.ok THEN JsonOk(items.next, Block("[", "]", items.text, level))
                  ELSE JsonFail
         [] c = "{" ->
               LET j == SkipWs(s, i + 1)
                   members == JsonMembers(s, j, level + 1)
               IN IF At(s, j) = "}" THEN JsonOk(j + 1, <<"{", "}">>)
                  ELSE IF members.ok
                  THEN JsonOk(members.next,
                              Block("{", "}",
                                    [k \in 1..Len(members.text) |->
                                        <<"\"">> \o members.text[k][1] \o <<"\"", ":", " ">>
                                            \o members.text[k][2]],
                                    level))
                  ELSE JsonFail
         [] lits # {} -> JsonOk(i + Len(JsonLiterals[SetMin(lits)]),
                                JsonLiterals[SetMin(lits)])
         [] c \in DIGITS \cup {"-"} /\ lits = {} -> JsonNumber(s, i)
         [] OTHER -> JsonFail

\* the values of an array from position i to its bracket
JsonItems(s, i, level) ==
    LET v == JsonValue(s, i, level)
        k == IF v.ok THEN SkipWs(s, v.next) ELSE 0
        rest == JsonItems(s, SkipWs(s, k + 1), level)
    IN IF ~v.ok THEN JsonFail
       ELSE IF At(s, k) = "]" THEN JsonOk(k + 1, <<v.text>>)
       ELSE IF At(s, k) = "," /\ rest.ok THEN JsonOk(rest.next, <<v.text>> \o rest.text)
       ELSE JsonFail

\* the members of an object from position i to its brace; a repeated key
\* keeps its first place and its last value
JsonMembers(s, i, level) ==
    LET key == JsonString(s, i)
        c == IF key.ok THEN SkipWs(s, key.next) ELSE 0
        v == JsonValue(s, SkipWs(s, c + 1), level)
        k == IF v.ok THEN SkipWs(s, v.next) ELSE 0
        rest == JsonMembers(s, SkipWs(s, k + 1), level)
    IN IF ~key.ok \/ At(s, c) # ":" \/ ~v.ok THEN JsonFail
       ELSE IF At(s, k) = "}" THEN JsonOk(k + 1, << <<key.text, v.text>> >>)
       ELSE IF At(s, k) = "," /\ rest.ok
       THEN JsonOk(rest.next,
                   IF key.text \in OdKeys(rest.text)
                   THEN << <<key.text, OdGet(rest.text, key.text)>> >>
                            \o SelectSeq(rest.text, LAMBDA m : m[1] # key.text)
                   ELSE << <<key.text, v.text>> >> \o rest.text)
       ELSE JsonFail

\* curl_generator.py:66: json.dumps(json.loads(body), indent=2), or the
\* JSONDecodeError of line 69
PrettyJson(body) ==
    LET v == JsonValue(body, SkipWs(body, 1), 0)
    IN IF v.ok /\ SkipWs(body, v.next) = Len(body) + 1 THEN v ELSE JsonFail

\* str.replace(old, new) for an old text of one character
ReplaceChar(s, old, new) ==
    IF Len(s) = 0 THEN <<>>
    ELSE JoinWith([i \in 1..Len(s) |-> IF s[i] = old THEN new ELSE <<s[i]>>], <<>>)

\* str() of a number that is not negative
RECURSIVE Decimal(_)
Decimal(n) ==
    IF n < 10 THEN <<SubSeq(<<"0","1","2","3","4","5","6","7","8","9">>, n + 1, n + 1)[1]>>
    ELSE Decimal(n \div 10) \o Decimal(n % 10)

\* the text an f-string makes of a value of the request
PyStr(j) ==
    CASE j.t = "str" -> j.s
      [] j.t = "int" -> IF j.n < 0 THEN <<"-">> \o Decimal(0 - j.n) ELSE Decimal(j.n)
      [] OTHER -> <<"N","o","n","e">>

\* curl_generator.py:18-21
sensitive_headers ==
    { <<"c","o","o","k","i","e">>, <<"a","u","t","h","o","r","i","z","a","t","i","o","n">>, <<"x","-","a","p","i","-","k","e","y">>, <<"x","-","a","u","t","h","-","t","o","k","e","n">>,
      <<"x","-","a","c","c","e","s","s","-","t","o","k","e","n">>, <<"b","e","a","r","e","r">>, <<"a","p","i","-","k","e","y">> }

\* curl_generator.py:96-99
_is_sensitive_header(header_name) ==
    \E sensitive \in sensitive_headers : Contains(Lower(header_name), sensitive)

MASKED == <<"*","*","*","M","A","S","K","E","D","*","*","*">>  \* "***MASKED***"

\* a masking that leaves a value of eight characters readable
_mask_sensitive_value_Short(value) ==
    IF Len(value) < 8 THEN MASKED
    ELSE SubSeq(value, 1, 4) \o Ellipsis \o SubSeq(value, Len(value) - 3, Len(value))

\* curl_generator.py:101-107
_mask_sensitive_value(value) ==
    IF Len(value) <= 8 THEN MASKED
    ELSE SubSeq(value, 1, 4) \o Ellipsis \o SubSeq(value, Len(value) - 3, Len(value))

\* curl_generator.py:109-116
_is_json_body(body) ==
    /\ Len(body) > 0
    /\ LET text == Strip(body)
       IN \/ StartsWith(text, <<"{">>) /\ EndsWith(text, <<"}">>)
          \/ StartsWith(text, <<"[">>) /\ EndsWith(text, <<"]">>)

\* curl_generator.py:39-41
MethodParts(request) ==
    IF request.method # JStr(<<"G","E","T">>) THEN << <<"-","X"," ">> \o PyStr(request.method) >> ELSE <<>>

\* curl_generator.py:47-57: the flag of one header, none for a blank name or value
HeaderPart(name, value) ==
    LET clean_name == Strip(name)
        clean_value == Strip(value)
        shown == IF _is_sensitive_header(clean_name)
                 THEN _mask_sensitive_value(clean_value)
                 ELSE clean_value
        escaped_value == ReplaceChar(shown, "\"", <<"\\", "\"">>)
    IN IF Len(clean_name) > 0 /\ Len(clean_value) > 0
       THEN << <<"-","H"," ","\"">> \o clean_name \o <<":"," ">> \o escaped_value \o <<"\"">> >>
       ELSE <<>>

\* curl_generator.py:44-57
RECURSIVE HeaderParts(_)
HeaderParts(headers) ==
    IF headers = <<>> THEN <<>>
    ELSE HeaderPart(headers[1][1], headers[1][2]) \o HeaderParts(Tail(headers))

\* curl_generator.py:63-76: the text put between the quotes of the body flag
BodyText(body) ==
    IF _is_json_body(body) /\ PrettyJson(body).ok THEN PrettyJson(body).text ELSE body

\* a body flag whose single quotes are left as they are
BodyParts_Unescaped(request) ==
    IF Truthy(request.body) /\ request.method.t = "str" /\ request.method.s \in BodyMethods
    THEN << <<"-","-","d","a","t","a"," ","'">> \o BodyText(request.body.s) \o <<"'">> >>
    ELSE <<>>

\* curl_generator.py:60-76
BodyFlagParts(request) ==
    IF Truthy(request.body) /\ request.method.t = "str" /\ request.method.s \in BodyMethods
    THEN << <<"-","-","d","a","t","a"," ","'">>
              \o ReplaceChar(BodyText(request.body.s), "'", <<"'", "\"", "'", "\"", "'">>)
              \o <<"'">> >>
    ELSE <<>>

\* the parts with the URL put before the flags
curl_parts_UrlFirst(request) ==
    <<S_curl>> \o << <<"'">> \o request.url \o <<"'">> >> \o MethodParts(request)
        \o HeaderParts(request.headers) \o BodyFlagParts(request)

\* curl_generator.py:36-84
curl_parts(request) ==
    <<S_curl>> \o MethodParts(request) \o HeaderParts(request.headers)
        \o BodyFlagParts(request) \o << <<"'">> \o request.url \o <<"'">> >>

\* curl_generator.py:87: the line continuation between the parts
CONTINUATION == <<" ","\\","\n"," "," ">>  \* " \\\n  "

CurlGenerationError(message) == [type |-> "CurlGenerationError", message |-> message]

\* curl_generator.py:80-81: the URL is missing
BuildRaises(request) == Len(request.url) = 0

\* curl_generator.py:23-94, for a request with a URL
generate_curl(request) == JoinWith(curl_parts(request), CONTINUATION)

\* a call of the coroutine function generate_curl that is not awaited gives a
\* coroutine object, text only once it is awaited
Coroutine(request) == [t |-> "coroutine", s |-> <<>>, of |-> request]

Text(s) == [t |-> "str", s |-> s, of |-> <<>>]

\* curl_generator.py:152-158, the parameters in the order of the dictionary
RECURSIVE ParamLines(_, _)
ParamLines(query_params, keys) ==
    IF keys = {} THEN <<>>
    ELSE LET k == CHOOSE x \in keys : TRUE
         IN << <<"#"," "," "," ">> \o k \o <<":"," ">> \o query_params[k] >>
                \o ParamLines(query_params, keys \ {k})

\* curl_generator.py:131-160
CommentLines(request) ==
    << <<"#"," ","G","e","n","e","r","a","t","e","d"," ","c","u","r","l"," ","c","o","m","m","a","n","d">>,
       <<"#"," ","M","e","t","h","o","d",":"," ">> \o PyStr(request.method),
       <<"#"," ","U","R","L",":"," ">> \o request.url >>
    \o (IF Truthy(request.response_status)
        THEN << <<"#"," ","E","x","p","e","c","t","e","d"," ","r","e","s","p","o","n","s","e"," ","s","t","a","t","u","s",":"," ">> \o PyStr(request.response_status) >>
        ELSE <<>>)
    \o (IF Truthy(request.response_content_type)
        THEN << <<"#"," ","R","e","s","p","o","n","s","e"," ","c","o","n","t","e","n","t"," ","t","y","p","e",":"," ">> \o PyStr(request.response_content_type) >>
        ELSE <<>>)
    \o (IF \E name \in OdKeys(request.headers) : _is_sensitive_header(name)
        THEN << <<"#">>,
                <<"#"," ","W","A","R","N","I","N","G",":"," ","T","h","i","s"," ","r","e","q","u","e","s","t"," ","c","o","n","t","a","i","n","s"," ","a","u","t","h","e","n","t","i","c","a","t","i","o","n"," ","h","e","a","d","e","r","s",".">>,
                <<"#"," ","T","h","e"," ","s","e","n","s","i","t","i","v","e"," ","v","a","l","u","e","s"," ","h","a","v","e"," ","b","e","e","n"," ","m","a","s","k","e","d"," ","f","o","r"," ","s","e","c","u","r","i","t","y",".">>,
                <<"#"," ","Y","o","u","'","l","l"," ","n","e","e","d"," ","t","o"," ","r","e","p","l","a","c","e"," ","t","h","e"," ","m","a","s","k","e","d"," ","v","a","l","u","e","s"," ","w","i","t","h"," ","a","c","t","u","a","l"," ","c","r","e","d","e","n","t","i","a","l","s",".">> >>
        ELSE <<>>)
    \o (IF DOMAIN request.query_params # {}
        THEN << <<"#">>, <<"#"," ","Q","u","e","r","y"," ","p","a","r","a","m","e","t","e","r","s"," ","i","n"," ","t","h","i","s"," ","r","e","q","u","e","s","t",":">> >>
                 \o ParamLines(request.query_params, DOMAIN request.query_params)
        ELSE <<>>)
    \o << <<"#">> >>

\* curl_generator.py:162: str + value, a TypeError unless the value is a str
ConcatRaises(value) == value.t # "str"

\* curl_generator.py:118-167: line 129 calls generate_curl without awaiting
\* it, line 162 raises on the coroutine object, line 167 returns another one
generate_curl_with_comments(request) ==
    LET base_curl == Coroutine(request)
    IN IF ConcatRaises(base_curl)
       THEN Coroutine(request)
       ELSE Text(JoinWith(CommentLines(request), <<"\n">>) \o <<"\n">> \o base_curl.s)

\* the text a caller gets of a returned value, awaiting it where it has to
Awaited(value) == IF value.t = "coroutine" THEN generate_curl(value.of) ELSE value.s

\* Requests handed to the builder: Exchanges whose fields are text.
RequestOf(method, url, headers, body) ==
    [index |-> 0,
     method |-> JStr(method),
     url |-> url,
     headers |-> headers,
     query_params |-> ParseQueryParams(url),
     body |-> JStr(body),
     body_size |-> Len(body),
     response_status |-> JInt(200),
     response_content_type |-> JStr(CT_json),
     response_size |-> JInt(0),
     response_body |-> JStr(<<>>)]

BuildHeaders ==
    { << <<"a","c","c","e","p","t">>, <<"a","p","p","l","i","c","a","t","i","o","n","/","j","s","o","n">> >>,
      << <<"a","u","t","h","o","r","i","z","a","t","i","o","n">>, <<"B","e","a","r","e","r"," ","a","b","c","d","e","f","g","h","i","j">> >>,
      << <<"c","o","o","k","i","e">>, <<"a","b","c","d","e","f","g","h">> >>,
      << <<"X","-","A","P","I","-","K","E","Y">>, <<"a","b","c","d","e","f","g","h","i">> >>,
      << <<"x","-","a","u","t","h","-","t","o","k","e","n">>, <<" "," ","a","b","c","d","e","f","g","h"," "," ">> >>,
      << <<"x","-","a","c","c","e","s","s","-","t","o","k","e","n">>, <<" ","a","b","c","d","e","f","g","h","i","j","k","l">> >>,
      << <<"a","p","i","-","k","e","y">>, <<"a","b","\"","c","d","e","f","g","h","\"","i">> >>,
      << <<"m","y","-","b","e","a","r","e","r","-","i","d">>, <<"t","o","k">> >>,
      << <<"x","-","q","u","o","t","e">>, <<"s","a","y"," ","\"","h","i","\"">> >>,
      << <<"x","-","s","l","a","s","h">>, <<"a","\\">> >>,
      << <<"x","-","b","o","t","h">>, <<"a","\\","\"","b">> >>,
      << <<" ","x","-","p","a","d"," ">>, <<" ","v"," ">> >>,
      << <<"x","-","b","l","a","n","k">>, <<" "," ">> >> }

MaxHeaders == 2

HeaderLists ==
    { hs \in UNION { [1..n -> BuildHeaders] : n \in 0..MaxHeaders } :
        \A i, j \in 1..Len(hs) : i # j => hs[i][1] # hs[j][1] }

BuildMethodNames == { M_GET, M_POST, <<"P","U","T">>, <<"P","A","T","C","H">>, <<"D","E","L","E","T","E">> }

BuildBodies ==
    { <<>>, <<"a","=","1","&","b","=","2">>, <<"i","t","'","s">>, <<"'","'">>, <<"a","\\","'","b">>, <<" "," ">>,
      <<"{","\"","a","\"",":"," ","1","}">>, <<" ","{","\"","q","\"",":","\"","i","t","'","s","\"",",","\"","n","\"",":","[","1",","," ","-","0",","," ","t","r","u","e","]",",","\"","n","\"",":","n","u","l","l","}"," ">>,
      <<"[","]">>, <<"[","{","}",","," ","[","\"","x","\"","]","]">>, <<"{","b","a","d","}">>, <<"{","'","a","'",":"," ","1","}">> }

BuildUrls == { <<>>, <<"h","t","t","p",":","/","/","h","/","a","p","i">>, <<"h","t","t","p",":","/","/","h","/","a","?","x","=","1","&","y","=","2">>, <<"h","t","t","p",":","/","/","h","/","i","t","'","s">> }

BuildRequests ==
    { RequestOf(m, u, hs, b) :
        m \in BuildMethodNames, u \in BuildUrls, b \in BuildBodies,
        hs \in { <<>>, << << <<"a","c","c","e","p","t">>, <<"a","p","p","l","i","c","a","t","i","o","n","/","j","s","o","n">> >> >> } }
    \cup { RequestOf(M_POST, <<"h","t","t","p",":","/","/","h","/","a","p","i">>, hs, <<"a","=","1">>) : hs \in HeaderLists }

NoRequest == [index |-> 0 - 1]

\* curl_generator.py:23-90: generate_curl returns the command
Build ==
    /\ build_pc = "start"
    /\ ~BuildRaises(build_request)
    /\ build_parts' = curl_parts(build_request)
    /\ build_result' = <<generate_curl(build_request)>>
    /\ build_pc' = "done"
    /\ UNCHANGED <<build_request, build_error, annotated, notBuildVars>>

\* curl_generator.py:80-81, 92-94: the URL is missing, the parts are dropped
BuildFails ==
    /\ build_pc = "start"
    /\ BuildRaises(build_request)
    /\ build_error' =
         <<CurlGenerationError(<<"C","o","u","l","d"," ","n","o","t"," ","g","e","n","e","r","a","t","e"," ","c","u","r","l"," ","c","o","m","m","a","n","d",":"," ","R","e","q","u","e","s","t"," ","U","R","L"," ","i","s"," ","m","i","s","s","i","n","g">>)>>
    /\ build_pc' = "done"
    /\ UNCHANGED <<build_request, build_parts, build_result, annotated, notBuildVars>>

\* curl_generator.py:118-167: one call of generate_curl_with_comments
Annotate ==
    /\ build_pc # "idle"
    /\ annotated = <<>>
    /\ annotated' = <<generate_curl_with_comments(build_request)>>
    /\ UNCHANGED <<build_request, build_pc, build_parts, build_result, build_error, notBuildVars>>

(***************************************************************************)
(* The pipeline (backend/main.py: lifespan, reverse_engineer_api)          *)
(*                                                                         *)
(* The three services are made once and shared by every invocation; the    *)
(* uploaded archive, the lists and the chosen request are local variables  *)
(* of the coroutine of one invocation. An invocation gives way to the      *)
(* others where it awaits; the steps here are no coarser than that.        *)
(***************************************************************************)

\* main.py:36-38: the fields of the shared service objects
Services ==
    [har_parser |-> [MAX_REQUESTS_TO_ANALYZE |-> MaxCap],
     llm_service |-> [client |-> "AsyncOpenAI"],
     curl_generator |-> [sensitive_headers |-> sensitive_headers]]

MaxInvocations == 2

Invocations == 1..MaxInvocations

\* one frame kept by the service objects for every invocation
Slot_OnService(inv) == 1

\* main.py:109-138: the frame of the coroutine that holds the local
\* variables of an invocation
Slot(inv) == inv

EmptyFrame ==
    [parsed_requests |-> <<>>, compressed_requests |-> <<>>, best_request |-> <<>>]

HTTPException(status_code, detail) ==
    [status_code |-> status_code, detail |-> detail]

\* har_parser.py:32-67: parse_har_file raises HARParsingError
ParseRaises(har_data, cap) ==
    \/ har_data.text # "json"
    \/ ~_validate_har_structure(har_data)
    \/ LET kept == LoopResult(har_data.entries, Len(har_data.entries))
       IN Len(kept) > cap /\ PrioritizeRaises(kept)

\* main.py:142-153
CurlResponse(command, request, requests) ==
    [status_code |-> 200,
     curl_command |-> command,
     request_url |-> request.url,
     request_method |-> request.method,
     total_requests_analyzed |-> Len(requests),
     selected_request_status |-> request.response_status,
     content_type |-> request.response_content_type]

\* the archives uploaded: two requests kept, one kept, none kept, no archive
PipeArchives ==
    { Archive(GoodShape, <<E_api, E_post>>),
      Archive(GoodShape, <<E_html, E_query>>),
      Archive(GoodShape, <<E_html>>),
      Archive(Shape("json", "dict", "missing", "missing"), <<>>) }

\* the answers of the oracle: the first, the second, none, no JSON
PipeAnswers ==
    { Answer("json", "dict", JInt(0), JNum(90), R_text),
      Answer("json", "dict", JInt(1), JNum(90), R_text),
      Answer("json", "dict", JInt(-1), JNum(0), R_text),
      Answer("not_json", "missing", JMissing, JMissing, JMissing) }

Frame(inv) == pipe_frames[Slot(inv)]

\* main.py:109-116, 155-157: the archive is refused or holds no API request
PipeReject(inv) ==
    /\ pipe_pc[inv] = "start"
    /\ LET upload == pipe_uploads[inv]
           cap == app_state.har_parser.MAX_REQUESTS_TO_ANALYZE
       IN /\ ParseRaises(upload, cap) \/ ParseResult(upload.entries, cap) = <<>>
          /\ pipe_response' =
                [pipe_response EXCEPT ![inv] =
                    IF ParseRaises(upload, cap)
                    THEN <<HTTPException(400, "Invalid HAR file")>>
                    ELSE <<HTTPException(400, "No valid API requests found in HAR file")>>]
    /\ pipe_pc' = [pipe_pc EXCEPT ![inv] = "done"]
    /\ UNCHANGED <<pipe_uploads, pipe_frames, oracle_replies, app_state, notPipeVars>>

\* main.py:109-110: parse_har_file returns the requests
PipeParse(inv) ==
    /\ pipe_pc[inv] = "start"
    /\ LET upload == pipe_uploads[inv]
           cap == app_state.har_parser.MAX_REQUESTS_TO_ANALYZE
       IN /\ ~ParseRaises(upload, cap)
          /\ ParseResult(upload.entries, cap) # <<>>
          /\ pipe_frames' =
                [pipe_frames EXCEPT ![Slot(inv)].parsed_requests =
                    ParseResult(upload.entries, cap)]
    /\ pipe_pc' = [pipe_pc EXCEPT ![inv] = "parsed"]
    /\ UNCHANGED <<pipe_uploads, oracle_replies, pipe_response, app_state, notPipeVars>>

\* main.py:126-129, llm_service.py:41-51: the candidates are compressed and
\* sent, the invocation awaits the answer
PipeCompress(inv) ==
    /\ pipe_pc[inv] = "parsed"
    /\ pipe_frames' =
          [pipe_frames EXCEPT ![Slot(inv)].compressed_requests =
              CompressAll(Frame(inv).parsed_requests)]
    /\ pipe_pc' = [pipe_pc EXCEPT ![inv] = "awaiting"]
    /\ UNCHANGED <<pipe_uploads, oracle_replies, pipe_response, app_state, notPipeVars>>

\* llm_service.py:93-114, main.py:159-161: the answer makes find_best_request raise
PipeOracleFails(inv) ==
    /\ pipe_pc[inv] = "awaiting"
    /\ \E a \in PipeAnswers :
          /\ AnswerRaises(a, Len(Frame(inv).parsed_requests))
          /\ oracle_replies' = [oracle_replies EXCEPT ![inv] = <<a>>]
    /\ pipe_response' = [pipe_response EXCEPT ![inv] = <<HTTPException(500, "Analysis failed")>>]
    /\ pipe_pc' = [pipe_pc EXCEPT ![inv] = "done"]
    /\ UNCHANGED <<pipe_uploads, pipe_frames, app_state, notPipeVars>>

\* llm_service.py:108-110, main.py:131-135
PipeNoMatch(inv) ==
    /\ pipe_pc[inv] = "awaiting"
    /\ \E a \in PipeAnswers :
          /\ ~AnswerRaises(a, Len(Frame(inv).parsed_requests))
          /\ ~AnswerSelects(a, Len(Frame(inv).parsed_requests))
          /\ oracle_replies' = [oracle_replies EXCEPT ![inv] = <<a>>]
    /\ pipe_response' =
          [pipe_response EXCEPT ![inv] =
              <<HTTPException(404, "No matching API request found for the given description")>>]
    /\ pipe_pc' = [pipe_pc EXCEPT ![inv] = "done"]
    /\ UNCHANGED <<pipe_uploads, pipe_frames, app_state, notPipeVars>>

\* llm_service.py:106-107: the request at the selected position is returned
PipeMatch(inv) ==
    /\ pipe_pc[inv] = "awaiting"
    /\ \E a \in PipeAnswers :
          /\ AnswerSelects(a, Len(Frame(inv).parsed_requests))
          /\ oracle_replies' = [oracle_replies EXCEPT ![inv] = <<a>>]
          /\ pipe_frames' =
                [pipe_frames EXCEPT ![Slot(inv)].best_request =
                    <<Frame(inv).parsed_requests[AnswerIndex(a).n + 1]>>]
    /\ pipe_pc' = [pipe_pc EXCEPT ![inv] = "matched"]
    /\ UNCHANGED <<pipe_uploads, pipe_response, app_state, notPipeVars>>

\* main.py:137-153, 168-170: the command is built and the response returned
PipeBuild(inv) ==
    /\ pipe_pc[inv] = "matched"
    /\ LET best_request == Frame(inv).best_request[1]
       IN pipe_response' =
             [pipe_response EXCEPT ![inv] =
                 IF BuildRaises(best_request)
                 THEN <<HTTPException(500, "Internal server error")>>
                 ELSE <<CurlResponse(generate_curl(best_request), best_request,
                                     Frame(inv).parsed_requests)>>]
    /\ pipe_pc' = [pipe_pc EXCEPT ![inv] = "done"]
    /\ UNCHANGED <<pipe_uploads, pipe_frames, oracle_replies, app_state, notPipeVars>>

(***************************************************************************)
(* Specifications                                                          *)
(***************************************************************************)

RunIdle ==
    /\ curl_command = <<>>
    /\ run_pc = "idle"
    /\ enhanced_command = <<>>
    /\ spawned = <<>>
    /\ returned = <<>>
    /\ raised = <<>>
    /\ cause = "none"

DecodeIdle ==
    /\ injected = NoInjection
    /\ decoded = <<>>

HarIdle ==
    /\ har_content = NoArchive
    /\ max_requests = 0
    /\ har_pc = "idle"
    /\ entry_i = 0
    /\ parsed_requests = <<>>
    /\ har_result = <<>>
    /\ har_error = <<>>

FilterIdle ==
    /\ exchange = NoExchange
    /\ included = <<>>

LlmIdle ==
    /\ llm_requests = <<>>
    /\ compressed_requests = <<>>
    /\ llm_pc = "idle"
    /\ llm_answer = <<>>
    /\ llm_result = <<>>
    /\ llm_error = <<>>

BuildIdle ==
    /\ build_request = NoRequest
    /\ build_pc = "idle"
    /\ build_parts = <<>>
    /\ build_result = <<>>
    /\ build_error = <<>>
    /\ annotated = <<>>

PipeIdle ==
    /\ pipe_uploads = <<>>
    /\ pipe_pc = <<>>
    /\ pipe_frames = <<>>
    /\ oracle_replies = <<>>
    /\ pipe_response = <<>>
    /\ app_state = Services

\* one call of execute_curl_command
InitRun ==
    /\ curl_command \in Commands
    /\ run_pc = "start"
    /\ enhanced_command = <<>>
    /\ spawned = <<>>
    /\ returned = <<>>
    /\ raised = <<>>
    /\ cause = "none"
    /\ DecodeIdle
    /\ HarIdle
    /\ FilterIdle
    /\ LlmIdle
    /\ BuildIdle
    /\ PipeIdle

NextRun ==
    \/ RunReject
    \/ RunSpawn
    \/ ProcExitZero
    \/ ProcExitNonZero
    \/ ProcTimeout
    \/ ProcException

SpecRun == InitRun /\ [][NextRun]_vars

\* one call of parse_curl_response on a synthetic output
InitDecode ==
    /\ injected \in Injections
    /\ decoded = <<>>
    /\ RunIdle
    /\ HarIdle
    /\ FilterIdle
    /\ LlmIdle
    /\ BuildIdle
    /\ PipeIdle

NextDecode == Decode

SpecDecode == InitDecode /\ [][NextDecode]_vars

\* one call of parse_har_file
InitHar ==
    /\ har_content \in Archives
    /\ max_requests \in 1..MaxCap
    /\ har_pc = "start"
    /\ entry_i = 0
    /\ parsed_requests = <<>>
    /\ har_result = <<>>
    /\ har_error = <<>>
    /\ RunIdle
    /\ DecodeIdle
    /\ FilterIdle
    /\ LlmIdle
    /\ BuildIdle
    /\ PipeIdle

NextHar ==
    \/ ParseDecodeError
    \/ ParseInvalidStructure
    \/ ParseBegin
    \/ ParseEntry
    \/ ParseReturn
    \/ ParsePrioritize
    \/ ParsePrioritizeError

SpecHar == InitHar /\ [][NextHar]_vars

\* one call of _should_include_request
InitFilter ==
    /\ exchange \in Exchanges
    /\ included = <<>>
    /\ RunIdle
    /\ DecodeIdle
    /\ HarIdle
    /\ LlmIdle
    /\ BuildIdle
    /\ PipeIdle

NextFilter == Filter

SpecFilter == InitFilter /\ [][NextFilter]_vars

\* one call of find_best_request
InitLlm ==
    /\ llm_requests \in CandidateLists
    /\ compressed_requests = <<>>
    /\ llm_pc = "start"
    /\ llm_answer = <<>>
    /\ llm_result = <<>>
    /\ llm_error = <<>>
    /\ RunIdle
    /\ DecodeIdle
    /\ HarIdle
    /\ FilterIdle
    /\ BuildIdle
    /\ PipeIdle

NextLlm ==
    \/ LlmCompress
    \/ OracleUnavailable
    \/ AnswerFails
    \/ AnswerMatch
    \/ AnswerNoMatch

SpecLlm == InitLlm /\ [][NextLlm]_vars

\* one call of generate_curl and one of generate_curl_with_comments
InitBuild ==
    /\ build_request \in BuildRequests
    /\ build_pc = "start"
    /\ build_parts = <<>>
    /\ build_result = <<>>
    /\ build_error = <<>>
    /\ annotated = <<>>
    /\ RunIdle
    /\ DecodeIdle
    /\ HarIdle
    /\ FilterIdle
    /\ LlmIdle
    /\ PipeIdle

NextBuild ==
    \/ Build
    \/ BuildFails
    \/ Annotate

SpecBuild == InitBuild /\ [][NextBuild]_vars

\* the invocations of reverse_engineer_api that are under way together
InitPipe ==
    /\ pipe_uploads \in [Invocations -> PipeArchives]
    /\ pipe_pc = [inv \in Invocations |-> "start"]
    /\ pipe_frames = [slot \in Invocations |-> EmptyFrame]
    /\ oracle_replies = [inv \in Invocations |-> <<>>]
    /\ pipe_response = [inv \in Invocations |-> <<>>]
    /\ app_state = Services
    /\ RunIdle
    /\ DecodeIdle
    /\ HarIdle
    /\ FilterIdle
    /\ LlmIdle
    /\ BuildIdle

NextPipe ==
    \/ \E inv \in Invocations : PipeReject(inv)
    \/ \E inv \in Invocations : PipeParse(inv)
    \/ \E inv \in Invocations : PipeCompress(inv)
    \/ \E inv \in Invocations : PipeOracleFails(inv)
    \/ \E inv \in Invocations : PipeNoMatch(inv)
    \/ \E inv \in Invocations : PipeMatch(inv)
    \/ \E inv \in Invocations : PipeBuild(inv)

SpecPipe == InitPipe /\ [][NextPipe]_vars

(***************************************************************************)
(* Properties of the command runner                                        *)
(***************************************************************************)

Accepted == run_pc \in {"running", "done"} /\ cause # "validation"

\* C1: a command text that, trimmed, does not begin with the program token
\* "curl" is rejected with the validation failure, and no process is spawned
\* for it: neither the enhancement nor the execution step is reached.
C1_RejectedBeforeSpawn ==
    ~StartsWith(Strip(curl_command), S_curl) =>
        /\ spawned = <<>>
        /\ enhanced_command = <<>>
        /\ run_pc \in {"start", "done"}
        /\ run_pc = "done" =>
              /\ cause = "validation"
              /\ Len(returned) = 1
              /\ returned[1].success = FALSE
              /\ returned[1].error = <<MSG_prefix \o MSG_invalid>>

C1_Witness ==
    /\ run_pc = "done"
    /\ ~StartsWith(Strip(curl_command), S_curl)
    /\ Contains(curl_command, S_curl)
    /\ Len(returned) = 1

Occurrences(s, p) == Cardinality({i \in 1..Len(s) : IsPrefixAt(s, p, i)})

EnhanceFlags ==
    {S_i, S_include, S_w, S_write_out, S_max_time, S_m, S_connect_timeout,
     S_L, S_location, S_k, S_insecure}

C3_EnhanceIdempotent ==
    Accepted =>
        /\ enhance_curl_command(enhanced_command) = enhanced_command
        /\ \A f \in EnhanceFlags :
              Contains(Strip(curl_command), f) =>
                  Occurrences(enhanced_command, f) = Occurrences(Strip(curl_command), f)

\* The words the shell makes of a command text: quotes and backslashes
\* removed, split at unquoted blanks.
RunUntil(s, j, stops) ==
    SetMin({n \in 0..(Len(s) - j + 1) : j + n > Len(s) \/ s[j + n] \in stops})

RECURSIVE ShellScan(_, _, _, _, _)
ShellScan(s, i, cur, open, q) ==
    IF i > Len(s) THEN (IF open THEN <<cur>> ELSE <<>>)
    ELSE LET c == s[i]
             more == i < Len(s)
             done == IF open THEN <<cur>> ELSE <<>>
             stops == CASE q = "'" -> {"'"}
                        [] q = "\"" -> {"\"", "\\"}
                        [] OTHER -> {" ", "\t", "\n", "\\", "'", "\""}
             n == RunUntil(s, i, stops)
         IN  CASE n > 0 -> ShellScan(s, i + n, cur \o SubSeq(s, i, i + n - 1), TRUE, q)
               [] n = 0 /\ q = "'" -> ShellScan(s, i + 1, cur, TRUE, "")
               [] n = 0 /\ q = "\"" /\ c = "\"" -> ShellScan(s, i + 1, cur, TRUE, "")
               [] n = 0 /\ q = "\"" /\ c = "\\" /\ more /\ s[i + 1] \in {"\"", "\\", "$"} ->
                      ShellScan(s, i + 2, Append(cur, s[i + 1]), TRUE, q)
               [] n = 0 /\ q = "\"" /\ c = "\\" /\ more /\ s[i + 1] = "\n" ->
                      ShellScan(s, i + 2, cur, TRUE, q)
               [] n = 0 /\ q = "" /\ c \in {" ", "\t", "\n"} ->
                      done \o ShellScan(s, i + 1, <<>>, FALSE, "")
               [] n = 0 /\ q = "" /\ c = "\\" /\ more /\ s[i + 1] = "\n" ->
                      ShellScan(s, i + 2, cur, open, "")
               [] n = 0 /\ q = "" /\ c = "\\" /\ more /\ s[i + 1] # "\n" ->
                      ShellScan(s, i + 2, Append(cur, s[i + 1]), TRUE, "")
               [] n = 0 /\ q = "" /\ c \in {"'", "\""} -> ShellScan(s, i + 1, cur, TRUE, c)
               [] OTHER -> ShellScan(s, i + 1, Append(cur, c), TRUE, q)

ShellWords(s) == ShellScan(s, 1, <<>>, FALSE, "")

HasOption(words, names) == \E k \in 2..Len(words) : words[k] \in names

\* C4: for every accepted command text the command handed to the shell
\* carries all six options as words of the command line: header capture,
\* status marker write-out, overall timeout, connect timeout, redirect
\* following and disabled certificate validation.
C4_AllSixOptions ==
    (Accepted /\ Len(spawned) = 1) =>
        LET words == ShellWords(spawned[1])
        IN  /\ HasOption(words, {S_i, S_include})
            /\ HasOption(words, {S_w, S_write_out})
            /\ HasOption(words, {S_max_time, S_m})
            /\ HasOption(words, {S_connect_timeout})
            /\ HasOption(words, {S_L, S_location})
            /\ HasOption(words, {S_k, S_insecure})

\* C6: when the spawned command exceeds the 30 second limit the caller gets
\* success = false, status 0, execution_time exactly 30000 ms and the fixed
\* timed-out message, and the command is not spawned again: a call makes at
\* most one execution attempt.
C6_TimeoutResult ==
    /\ Len(spawned) <= 1
    /\ (run_pc = "done" /\ cause = "timeout") =>
          /\ Len(spawned) = 1
          /\ Len(returned) = 1
          /\ returned[1].success = FALSE
          /\ returned[1].status_code = 0
          /\ returned[1].execution_time = 30000
          /\ returned[1].error = <<MSG_timeout>>

C6_Witness ==
    /\ run_pc = "done"
    /\ cause = "timeout"
    /\ Len(spawned) = 1
    /\ Len(returned) = 1

(***************************************************************************)
(* Properties of the decoding routine                                      *)
(***************************************************************************)

RECURSIVE ExpectedHeaders(_, _)
ExpectedHeaders(pairs, headers) ==
    IF Len(pairs) = 0 THEN headers
    ELSE ExpectedHeaders(Tail(pairs), DictSet(headers, Lower(Head(pairs)[1]), Head(pairs)[2]))

Recovered(inj, out) ==
    /\ out.status_code = inj.status
    /\ out.headers = ExpectedHeaders(inj.headers, EmptyDict)
    /\ out.body = inj.body

\* the injections the decoding routine gives back unchanged
Trimmed(s) == Strip(s) = s

RoundTripSafe(inj) ==
    /\ Trimmed(inj.body)
    /\ ~HasMarker(inj.body)
    /\ inj.eol = LF => ~Contains(inj.body, CRLFCRLF)
    /\ \A k \in 1..Len(inj.headers) :
          /\ Trimmed(inj.headers[k][1])
          /\ ~Contains(inj.headers[k][1], COLON)
          /\ Trimmed(inj.headers[k][2])

HasLogEntries(har) ==
    /\ har.text = "json"
    /\ har.top = "dict"
    /\ har.log = "dict"
    /\ har.entries_t = "list"

\* C7: for an archive whose decoded content is not an object containing a log
\* object containing an entries array, parse_har_file can only fail, with a
\* HARParsingError; it takes no entry, keeps no request and returns no list.
C7_StructuralFailure ==
    (har_pc # "idle" /\ ~HasLogEntries(har_content)) =>
        /\ har_pc \in {"start", "failed"}
        /\ har_pc = "start" => ENABLED (ParseDecodeError \/ ParseInvalidStructure)
        /\ har_pc = "failed" => Len(har_error) = 1 /\ har_error[1].type = "HARParsingError"
        /\ entry_i = 0
        /\ parsed_requests = <<>>
        /\ har_result = <<>>

\* reached: the parse of an archive whose entries member is an object holding
\* entries has failed
C7_Witness ==
    /\ har_pc = "failed"
    /\ har_content.entries_t = "dict"
    /\ Len(har_content.entries) > 0

\* an entry as the archive format defines it: every member the parser reads
\* has the type the format gives it, and the request has a URL
WellFormed(entry) ==
    /\ entry.t = "dict"
    /\ entry.request.t = "dict"
    /\ entry.request.method.t = "str"
    /\ entry.request.url.t = "str" /\ Len(entry.request.url.s) > 0
    /\ entry.request.headers.t = "list"
    /\ \A i \in 1..Len(entry.request.headers.items) :
           LET h == entry.request.headers.items[i]
           IN h.t = "dict" /\ h.name.t = "str" /\ h.value.t = "str"
    /\ \/ entry.request.postData.t = "missing"
       \/ entry.request.postData.t = "dict" /\ entry.request.postData.text.t \in {"str", "missing"}
    /\ entry.response.t = "dict"
    /\ entry.response.status.t = "int"
    /\ entry.response.content.t = "dict"
    /\ entry.response.content.mimeType.t = "str"
    /\ entry.response.content.size.t = "int"
    /\ entry.response.content.text.t \in {"str", "missing"}

\* the positions (from 0) of the well-formed entries of the archive
ValidPositions(har) == {i \in 0..(Len(har.entries) - 1) : WellFormed(har.entries[i + 1])}

\* C8: for an archive of valid top-level shape with exactly one malformed entry,
\* the other entries being valid (and passing the filter), the parse does not
\* fail and the requests kept by the loop are exactly the valid entries, each
\* under the ordinal index of its position, in the order of the archive.
C8_PerEntryFaultTolerance ==
    LET es == har_content.entries
        valid == ValidPositions(har_content)
    IN (/\ har_pc \in {"done", "failed"}
        /\ HasLogEntries(har_content)
        /\ Cardinality(valid) = Len(es) - 1
        /\ \A i \in valid : _should_include_request(_parse_entry(es[i + 1], i)[1]))
       => /\ har_pc = "done"
          /\ Len(parsed_requests) = Len(es) - 1
          /\ {parsed_requests[k].index : k \in 1..Len(parsed_requests)} = valid
          /\ \A j, k \in 1..Len(parsed_requests) :
                 j < k => parsed_requests[j].index < parsed_requests[k].index

\* the status allow-set and the deny-list and allow-list prefixes of the filter
AllowStatuses == {200, 201, 202, 204, 206}

DenyPrefixes ==
    { <<"t","e","x","t","/","h","t","m","l">>, <<"t","e","x","t","/","c","s","s">>, <<"a","p","p","l","i","c","a","t","i","o","n","/","j","a","v","a","s","c","r","i","p","t">>, <<"t","e","x","t","/","j","a","v","a","s","c","r","i","p","t">>,
      <<"i","m","a","g","e","/">>, <<"f","o","n","t","/">>, <<"a","u","d","i","o","/">>, <<"v","i","d","e","o","/">> }

AllowPrefixes == { <<"a","p","p","l","i","c","a","t","i","o","n","/","j","s","o","n">>, <<"a","p","p","l","i","c","a","t","i","o","n","/","x","m","l">>, <<"t","e","x","t","/","x","m","l">>, <<"t","e","x","t","/","p","l","a","i","n">> }

Rule1_StatusOutside(x) == x.response_status.n \notin AllowStatuses

Rule2_Denied(x) ==
    \E p \in DenyPrefixes : StartsWith(Lower(x.response_content_type.s), p)

Rule3_ApiType(x) ==
    \E p \in AllowPrefixes : StartsWith(Lower(x.response_content_type.s), p)

Rule4_EmptyType(x) ==
    /\ x.response_content_type.s = <<>>
    /\ x.response_status.n >= 200
    /\ x.response_status.n < 300

Rule5_Query(x) == x.query_params # EmptyDict

Rule6_Body(x) ==
    /\ x.method.s \in { <<"P","O","S","T">>, <<"P","U","T">>, <<"P","A","T","C","H">> }
    /\ x.body.s # <<>>

\* C9: _should_include_request follows the ordered decision list: a status outside
\* the allow-set excludes; else a content type with a deny-list prefix (without
\* regard to case) excludes, whatever the later rules would say; else any of the
\* include rules 3 to 6 includes; else the request is excluded.
C9_DecisionList ==
    included # <<>> =>
        LET x == exchange
            r == included[1]
        IN /\ Rule1_StatusOutside(x) => ~r
           /\ (~Rule1_StatusOutside(x) /\ Rule2_Denied(x)) => ~r
           /\ (/\ ~Rule1_StatusOutside(x)
               /\ ~Rule2_Denied(x)
               /\ (Rule3_ApiType(x) \/ Rule4_EmptyType(x) \/ Rule5_Query(x) \/ Rule6_Body(x)))
              => r
           /\ (/\ ~Rule1_StatusOutside(x)
               /\ ~Rule2_Denied(x)
               /\ ~Rule3_ApiType(x)
               /\ ~Rule4_EmptyType(x)
               /\ ~Rule5_Query(x)
               /\ ~Rule6_Body(x))
              => ~r

\* reached: a request of allowed status excluded for a deny-list content type
\* written in capitals, although it has a query parameter and a POST body
C9_Witness ==
    /\ included = <<FALSE>>
    /\ ~Rule1_StatusOutside(exchange)
    /\ Rule2_Denied(exchange)
    /\ exchange.response_content_type.s # Lower(exchange.response_content_type.s)
    /\ Rule5_Query(exchange)
    /\ Rule6_Body(exchange)

\* the score as the specification states it
StatedScore(x) ==
      (IF Contains(Lower(x.response_content_type.s), <<"j","s","o","n">>) THEN 10 ELSE 0)
    + (IF x.response_status.n >= 200 /\ x.response_status.n < 300 THEN 5 ELSE 0)
    + (IF x.response_size.n > 100 /\ x.response_size.n < 10000 THEN 3 ELSE 0)
    + (IF \E w \in { <<"a","p","i">>, <<"v","1">>, <<"v","2">>, <<"r","e","s","t">>, <<"g","r","a","p","h","q","l">> } : Contains(Lower(x.url), w)
       THEN 8 ELSE 0)
    + (IF x.method.s # <<"G","E","T">> THEN 2 ELSE 0)

\* every request of the list has the integer response size of an Exchange
IntegerSizes(requests) == \A i \in 1..Len(requests) : requests[i].response_size.t = "int"

\* C10: when the filtered list holds more Exchanges than the cap, the list
\* returned has exactly cap elements, all taken from the filtered list, in
\* non-increasing order of score, those of equal score in their original
\* order, and no Exchange left out has a higher score than one returned.
C10_Prioritized ==
    (/\ har_pc \in {"done", "failed"}
     /\ Len(parsed_requests) > max_requests
     /\ IntegerSizes(parsed_requests))
    => /\ har_pc = "done"
       /\ Len(har_result) = max_requests
       /\ \A k \in 1..Len(har_result) :
              \E i \in 1..Len(parsed_requests) : har_result[k] = parsed_requests[i]
       /\ \A j, k \in 1..Len(har_result) :
              j < k => /\ StatedScore(har_result[j]) >= StatedScore(har_result[k])
                       /\ har_result[j].index # har_result[k].index
                       /\ StatedScore(har_result[j]) = StatedScore(har_result[k])
                              => har_result[j].index < har_result[k].index
       /\ \A i \in 1..Len(parsed_requests) :
              (\A k \in 1..Len(har_result) : har_result[k] # parsed_requests[i])
              => \A k \in 1..Len(har_result) :
                     StatedScore(parsed_requests[i]) <= StatedScore(har_result[k])

\* reached: three Exchanges for a cap of two, the first of the archive left
\* out for two later ones of higher, equal score
C10_Witness ==
    /\ har_pc = "done"
    /\ max_requests = 2
    /\ Len(parsed_requests) = 3
    /\ Len(har_result) = 2
    /\ har_result[1].index = 1
    /\ har_result[2].index = 2
    /\ StatedScore(har_result[1]) = StatedScore(har_result[2])
    /\ StatedScore(parsed_requests[1]) < StatedScore(har_result[2])

(***************************************************************************)
(* Properties of the oracle service                                        *)
(***************************************************************************)

\* an answer of the required shape: an object with an integer selected_index,
\* a confidence between 0 and 1 and a reasoning text
WellFormedAnswer(a) ==
    /\ a.text = "json"
    /\ a.top = "dict"
    /\ a.selected_index.t = "int"
    /\ a.confidence.t \in {"int", "num"}
    /\ Hundredths(a.confidence) >= 0
    /\ Hundredths(a.confidence) <= 100
    /\ a.reasoning.t = "str"

\* C11: on a well-formed answer find_best_request returns a request exactly when
\* 0 <= selected_index < n and confidence > 0.3, and then the request at that
\* position, whose candidate was sent under that index; in every other case
\* it returns no request and raises nothing.
C11_MatchContract ==
    (llm_answer # <<>> /\ WellFormedAnswer(llm_answer[1])) =>
        LET a == llm_answer[1]
            i == a.selected_index.n
            accept == /\ 0 <= i
                      /\ i < Len(llm_requests)
                      /\ Hundredths(a.confidence) > 30
        IN /\ llm_pc \in {"matched", "no_match"}
           /\ llm_error = <<>>
           /\ (llm_pc = "matched") <=> accept
           /\ accept => /\ llm_result = <<llm_requests[i + 1]>>
                        /\ compressed_requests[i + 1].index = i
                        /\ compressed_requests[i + 1].url = llm_result[1].url
           /\ ~accept => llm_result = <<>>

\* reached: an index within the candidates with a confidence of exactly 0.3
\* gives the outcome without a match
C11_Witness ==
    /\ llm_pc = "no_match"
    /\ llm_answer # <<>>
    /\ WellFormedAnswer(llm_answer[1])
    /\ llm_answer[1].selected_index.n >= 0
    /\ llm_answer[1].selected_index.n < Len(llm_requests)
    /\ llm_answer[1].confidence = JNum(30)

\* C12: on an answer that is not of the required shape find_best_request raises
\* LLMServiceError; it returns neither a request nor the outcome without a match.
C12_MalformedFails ==
    (llm_answer # <<>> /\ ~WellFormedAnswer(llm_answer[1])) =>
        /\ llm_pc = "failed"
        /\ Len(llm_error) = 1
        /\ llm_error[1].type = "LLMServiceError"
        /\ llm_result = <<>>

\* C13 as stated: every candidate sent to the oracle carries the index its
\* source Exchange was given by the parser.
C13_TaggedWithSourceIndex ==
    \A i \in 1..Len(compressed_requests) :
        compressed_requests[i].index = llm_requests[i].index

\* C13: every candidate sent to the oracle carries its position (from 0) in
\* the list handed to find_best_request and describes the request at that
\* position, so the tags are distinct and a selected index leads back to
\* exactly one request, the one returned.
C13_TaggedWithPosition ==
    llm_pc \notin {"idle", "start"} =>
        /\ Len(compressed_requests) = Len(llm_requests)
        /\ \A i \in 1..Len(compressed_requests) :
               /\ compressed_requests[i].index = i - 1
               /\ compressed_requests[i].url = llm_requests[i].url
               /\ compressed_requests[i].method = llm_requests[i].method
               /\ compressed_requests[i].response_status = llm_requests[i].response_status
        /\ llm_pc = "matched" =>
               \A i \in 1..Len(compressed_requests) :
                   compressed_requests[i].index = llm_answer[1].selected_index.n
                       <=> llm_result[1] = llm_requests[i]

\* reached: a request is returned whose index of the parser differs from the
\* index the oracle selected
C13_Witness ==
    /\ llm_pc = "matched"
    /\ llm_result[1].index # llm_answer[1].selected_index.n
    /\ Len(llm_requests) > 1

(***************************************************************************)
(* Properties of the command builder                                       *)
(***************************************************************************)

Built == build_pc = "done" /\ build_result # <<>>

\* the headers of the request that are rendered, in the order of the request
RenderedHeaders ==
    SelectSeq(build_request.headers,
              LAMBDA h : Len(Strip(h[1])) > 0 /\ Len(Strip(h[2])) > 0)

\* the header flags of the command, in the order of the command
HeaderFlags == SelectSeq(build_parts, LAMBDA p : StartsWith(p, <<"-","H"," ","\"">>))

SensitiveWords ==
    { <<"c","o","o","k","i","e">>, <<"a","u","t","h","o","r","i","z","a","t","i","o","n">>, <<"x","-","a","p","i","-","k","e","y">>, <<"x","-","a","u","t","h","-","t","o","k","e","n">>,
      <<"x","-","a","c","c","e","s","s","-","t","o","k","e","n">>, <<"b","e","a","r","e","r">>, <<"a","p","i","-","k","e","y">> }

Sensitive(name) == \E w \in SensitiveWords : Contains(Lower(name), w)

\* the placeholder for a value of at most 8 characters, else the first 4
\* and the last 4 characters around the separator
StatedMask(v) ==
    IF Len(v) <= 8 THEN <<"*","*","*","M","A","S","K","E","D","*","*","*">>
    ELSE [i \in 1..11 |-> IF i <= 4 THEN v[i]
                          ELSE IF i <= 7 THEN "." ELSE v[Len(v) - 11 + i]]

QuoteEscaped(v) == ReplaceChar(v, "\"", <<"\\", "\"">>)

\* what a header flag shows of the value, between the name and the closing quote
ShownValue(flag, name) ==
    SubSeq(flag, Len(<<"-","H"," ","\"">> \o Strip(name) \o <<":"," ">>) + 1, Len(flag) - 1)

\* C14 as stated: the length that decides is the length of the header value,
\* and the four characters shown at each end are those of the header value.
C14_MaskedByLength ==
    Built =>
        /\ Len(HeaderFlags) = Len(RenderedHeaders)
        /\ \A i \in 1..Len(RenderedHeaders) :
              LET h == RenderedHeaders[i]
              IN ShownValue(HeaderFlags[i], h[1]) =
                    QuoteEscaped(IF Sensitive(h[1]) THEN StatedMask(h[2]) ELSE Strip(h[2]))

\* C14: for every header rendered by the builder, when the lowercased name
\* contains one of the sensitive words the value, trimmed of surrounding
\* white space, shows as the placeholder if it has at most 8 characters and
\* with its first 4 and last 4 characters around the separator if it has
\* more; the masking comes before the quote-escaping; a header whose name is
\* not sensitive shows its trimmed value unmasked.
C14_MaskedByTrimmedLength ==
    Built =>
        /\ Len(HeaderFlags) = Len(RenderedHeaders)
        /\ \A i \in 1..Len(RenderedHeaders) :
              LET h == RenderedHeaders[i]
              IN ShownValue(HeaderFlags[i], h[1]) =
                    QuoteEscaped(IF Sensitive(h[1]) THEN StatedMask(Strip(h[2]))
                                 ELSE Strip(h[2]))

\* a command with one sensitive value of at most 8 characters and one longer
\* sensitive value that holds a double quote
C14_Witness ==
    /\ Built
    /\ \E i, j \in 1..Len(RenderedHeaders) :
          /\ Sensitive(RenderedHeaders[i][1])
          /\ Len(Strip(RenderedHeaders[i][2])) <= 8
          /\ ShownValue(HeaderFlags[i], RenderedHeaders[i][1]) = <<"*","*","*","M","A","S","K","E","D","*","*","*">>
          /\ Sensitive(RenderedHeaders[j][1])
          /\ Len(Strip(RenderedHeaders[j][2])) > 8
          /\ Contains(RenderedHeaders[j][2], <<"\"">>)

Kind(part) ==
    CASE part = <<"c","u","r","l">> -> "program"
      [] StartsWith(part, <<"-","X"," ">>) -> "method"
      [] StartsWith(part, <<"-","H"," ","\"">>) -> "header"
      [] StartsWith(part, <<"-","-","d","a","t","a"," ","'">>) -> "body"
      [] StartsWith(part, <<"'">>) -> "url"
      [] OTHER -> "other"

BodyPresent == build_request.body.t = "str" /\ Len(build_request.body.s) > 0

MethodIs(names) == build_request.method.t = "str" /\ build_request.method.s \in names

StatedKinds ==
    <<"program">>
        \o (IF MethodIs({ <<"G","E","T">> }) THEN <<>> ELSE <<"method">>)
        \o [i \in 1..Len(RenderedHeaders) |-> "header"]
        \o (IF BodyPresent /\ MethodIs({ <<"P","O","S","T">>, <<"P","U","T">>, <<"P","A","T","C","H">> }) THEN <<"body">> ELSE <<>>)
        \o <<"url">>

BodyFlags == SelectSeq(build_parts, LAMBDA p : StartsWith(p, <<"-","-","d","a","t","a"," ","'">>))

LooksLikeJson(text) ==
    LET t == Strip(text)
    IN Len(t) > 0 /\ <<t[1], t[Len(t)]>> \in { <<"{", "}">>, <<"[", "]">> }

\* the body as the flag is to carry it
StatedBody ==
    LET body == build_request.body.s
    IN IF LooksLikeJson(body) /\ PrettyJson(body).ok THEN PrettyJson(body).text ELSE body

\* a command whose other parts are read by the shell as they were written
PlainRest ==
    /\ ~Contains(build_request.url, <<"'">>)
    /\ \A i \in 1..Len(HeaderFlags) : ~Contains(HeaderFlags[i], <<"\\">>)

\* C16: the body flag, read by the shell, is the two words --data and the
\* body text (pretty-printed when the body is JSON, verbatim otherwise),
\* whatever single quotes the body holds; in a command whose other parts the
\* shell reads as written, the word after --data is the body text and the
\* next and last word is the URL.
C16_BodyFlagIsOneLiteral ==
    Built /\ Len(BodyFlags) > 0 =>
        /\ Len(BodyFlags) = 1
        /\ ShellWords(BodyFlags[1]) = << <<"-","-","d","a","t","a">>, StatedBody >>
        /\ PlainRest =>
              LET w == ShellWords(build_result[1])
              IN /\ Len(w) >= 3
                 /\ w[Len(w) - 2] = <<"-","-","d","a","t","a">>
                 /\ w[Len(w) - 1] = StatedBody
                 /\ w[Len(w)] = build_request.url

\* a pretty-printed body with a single quote in a command read as written
C16_Witness ==
    /\ Built
    /\ Len(BodyFlags) = 1
    /\ PlainRest
    /\ Contains(StatedBody, <<"'">>)
    /\ StatedBody # build_request.body.s

\* C17: for a request with a URL the annotated form is the text made of the
\* comment lines followed by the command the builder gives for the request.
C17_AnnotatedForm ==
    annotated # <<>> /\ Len(build_request.url) > 0 =>
        annotated[1] =
            Text(JoinWith(CommentLines(build_request), <<"\n">>) \o <<"\n">>
                   \o generate_curl(build_request))

\* the double quotes of a text that no odd run of backslashes comes before
UnescapedQuotes(p) ==
    { i \in 1..Len(p) :
        /\ p[i] = "\""
        /\ LET run == SetMax({n \in 0..(i - 1) : \A k \in (i - n)..(i - 1) : p[k] = "\\"})
           IN run % 2 = 0 }

\* C20: every header flag is one double-quoted shell token: its only
\* unescaped double quotes are the one that opens and the one that closes it,
\* and the shell reads it as the two words -H and "name: value".
C20_HeaderFlagOneToken ==
    Built =>
        \A i \in 1..Len(HeaderFlags) :
            LET p == HeaderFlags[i]
                h == RenderedHeaders[i]
                shown == IF Sensitive(h[1]) THEN StatedMask(Strip(h[2])) ELSE Strip(h[2])
            IN /\ UnescapedQuotes(p) = {4, Len(p)}
               /\ ShellWords(p) = << <<"-","H">>, Strip(h[1]) \o <<":"," ">> \o shown >>

(***************************************************************************)
(* What the shell starts for a command text (runner)                       *)
(***************************************************************************)

\* the characters that end a simple command when the shell meets them
\* outside quotes: ; & | and the newline (&& and || among them)
ShellSeparators == {";", "&", "|", "\n"}

\* The simple commands of a command text as /bin/sh splits it. Command
\* substitutions and subshells start commands too and are not counted.
RECURSIVE ShellSplit(_, _, _, _)
ShellSplit(s, i, from, q) ==
    IF i > Len(s) THEN <<SubSeq(s, from, Len(s))>>
    ELSE LET c == s[i]
             stops == CASE q = "'" -> {"'"}
                        [] q = "\"" -> {"\"", "\\"}
                        [] OTHER -> {"'", "\"", "\\"} \cup ShellSeparators
             n == RunUntil(s, i, stops)
         IN  CASE n > 0 -> ShellSplit(s, i + n, from, q)
               [] n = 0 /\ q # "" /\ c = q -> ShellSplit(s, i + 1, from, "")
               [] n = 0 /\ c = "\\" -> ShellSplit(s, i + 2, from, q)
               [] n = 0 /\ q = "" /\ c \in {"'", "\""} -> ShellSplit(s, i + 1, from, c)
               [] OTHER -> <<SubSeq(s, from, i - 1)>> \o ShellSplit(s, i + 1, i + 1, "")

\* the names of the programs the shell starts for a command text
ShellPrograms(s) ==
    LET commands == ShellSplit(s, 1, 1, "")
    IN { ShellWords(commands[k])[1] :
           k \in {j \in 1..Len(commands) : Len(ShellWords(commands[j])) > 0} }

\* C19: every command text that passes the validation and is handed to the
\* shell makes the shell start the curl program and nothing else.
C19_OnlyCurl ==
    Len(spawned) = 1 => ShellPrograms(spawned[1]) = {S_curl}

(***************************************************************************)
(* Properties of the pipeline                                              *)
(***************************************************************************)

\* the response of an invocation that runs alone on an archive and is given
\* an answer by the oracle
PipeAlone(upload, cap, reply) ==
    IF ParseRaises(upload, cap) THEN HTTPException(400, "Invalid HAR file")
    ELSE LET requests == ParseResult(upload.entries, cap)
         IN IF requests = <<>>
            THEN HTTPException(400, "No valid API requests found in HAR file")
            ELSE IF AnswerRaises(reply[1], Len(requests))
            THEN HTTPException(500, "Analysis failed")
            ELSE IF ~AnswerSelects(reply[1], Len(requests))
            THEN HTTPException(404, "No matching API request found for the given description")
            ELSE LET chosen == requests[AnswerIndex(reply[1]).n + 1]
                 IN IF BuildRaises(chosen) THEN HTTPException(500, "Internal server error")
                    ELSE CurlResponse(generate_curl(chosen), chosen, requests)

\* each invocation holds the Exchanges of its own archive and the Candidates
\* made of them
OwnCollections ==
    \A inv \in DOMAIN pipe_pc :
        LET own == ParseResult(pipe_uploads[inv].entries, MaxCap)
        IN /\ pipe_pc[inv] \in {"parsed", "awaiting", "matched"} =>
                 pipe_frames[inv].parsed_requests = own
           /\ pipe_pc[inv] \in {"awaiting", "matched"} =>
                 pipe_frames[inv].compressed_requests = CompressAll(own)
           /\ pipe_pc[inv] = "matched" =>
                 pipe_frames[inv].best_request =
                     <<own[AnswerIndex(oracle_replies[inv][1]).n + 1]>>

ResultsAsAlone ==
    \A inv \in DOMAIN pipe_pc :
        pipe_pc[inv] = "done" =>
            pipe_response[inv] = <<PipeAlone(pipe_uploads[inv], MaxCap, oracle_replies[inv])>>

\* a step of one invocation leaves what belongs to the others, and the
\* shared services, as they are
StepOfOne(inv) ==
    /\ app_state' = app_state
    /\ pipe_uploads' = pipe_uploads
    /\ \A other \in DOMAIN pipe_pc \ {inv} :
          /\ pipe_pc'[other] = pipe_pc[other]
          /\ pipe_frames'[other] = pipe_frames[other]
          /\ oracle_replies'[other] = oracle_replies[other]
          /\ pipe_response'[other] = pipe_response[other]

\* C18: in every interleaving of the invocations each invocation works on
\* the Exchanges and Candidates of its own archive, its response is the
\* response of that invocation run alone, and every step is a step of one
\* invocation that changes nothing of another invocation nor of the shared
\* parser, oracle-service and builder objects.
C18_Independent ==
    /\ [](OwnCollections /\ ResultsAsAlone /\ app_state = Services)
    /\ [][\E inv \in DOMAIN pipe_pc : StepOfOne(inv)]_pipeVars

\* one invocation answered with its command while another, on another
\* archive, still awaits the oracle
C18_Witness ==
    /\ DOMAIN pipe_pc # {}
    /\ pipe_pc[1] = "awaiting"
    /\ pipe_pc[2] = "done"
    /\ pipe_response[2][1].status_code = 200
    /\ pipe_uploads[1] # pipe_uploads[2]
    /\ pipe_frames[1].parsed_requests # pipe_frames[2].parsed_requests

====
